---- MODULE Spec2Model ----
(***************************************************************************)
(* Warehouse stock ledger: the stock computation of lib/stockCalculations  *)
(* (calculateProductStockInWarehouse) and the write handlers that feed the *)
(* ledger (invoice entry, transfer, invoice return, inventory count).      *)
(*                                                                         *)
(* Strings the code compares or splits are sequences of character codes:   *)
(* a batch_date is the zero-padded day part of an ISO date, a batch key is *)
(* the template string `${batch_date}_${unit_price}`.                      *)
(***************************************************************************)
EXTENDS Integers, Sequences, FiniteSets, TLC

\* ---------------------------------------------------------------- bounds
NumWarehouses == 2
NumProductIds == 1
NumDates == 2
MaxPrice == 2
MaxQty == 2
MaxInvoiceLines == 2
MaxTransferLines == 1
MaxStockOutLines == 1
NumSessions == 1
NumTabs == 2
MaxInvoices == 2
MaxEntryRows == 1
MaxTransfers == 1
MaxReturns == 2
MaxCounts == 2
MaxDocs == 3
MaxLoads == 2
batchSize == 1

Warehouses == 1..NumWarehouses
ProductTypes == {"reagent", "consumable"}
ProductIds == 1..NumProductIds
Suppliers == {"Acme", "Beta"}
Prices == 1..MaxPrice
Quantities == 1..MaxQty

\* ------------------------------------------------------------- strings
\* Character codes of the decimal digits, of '_' and of the empty string.
Digit(d) == 48 + d
UnderscoreChar == 95

\* String(n) of a non-negative integer, as `${n}` renders it.
RECURSIVE NumStr(_)
NumStr(n) == IF n < 10 THEN <<Digit(n)>> ELSE NumStr(n \div 10) \o <<Digit(n % 10)>>

\* The date strings the store returns for a `date` column: zero padded, so
\* that all have the same length.
DateStr(n) == <<Digit(n \div 10), Digit(n % 10)>>
Dates == {DateStr(n) : n \in 1..NumDates}

\* String.prototype.localeCompare on strings of digits: -1, 0 or 1.
RECURSIVE localeCompare(_, _)
localeCompare(a, b) ==
  IF a = <<>> /\ b = <<>> THEN 0
  ELSE IF a = <<>> THEN -1
  ELSE IF b = <<>> THEN 1
  ELSE IF Head(a) < Head(b) THEN -1
  ELSE IF Head(a) > Head(b) THEN 1
  ELSE localeCompare(Tail(a), Tail(b))

\* `${batch_date}_${unit_price}`; the variant BatchKeyNoPrice keys a bucket by
\* its date alone.
BatchKeyNoPrice(batch_date, unit_price) == batch_date \o <<UnderscoreChar>>
BatchKey(batch_date, unit_price) ==
  batch_date \o <<UnderscoreChar>> \o NumStr(unit_price)

\* key.split('_')[0]: the part of the key before its first '_'.
RECURSIVE SplitFirst(_)
SplitFirst(key) ==
  IF key = <<>> \/ Head(key) = UnderscoreChar THEN <<>>
  ELSE <<Head(key)>> \o SplitFirst(Tail(key))

\* ------------------------------------------------------------- the store
VARIABLES
  invoices,         \* rows [id, warehouse_id, supplier, status, date]
  invoice_items,    \* rows [invoice_id, product_type, product_id, quantity, unit_price, batch_date]
  transfers,        \* rows [id, from_warehouse_id, to_warehouse_id, date]
  transfer_items,   \* rows [transfer_id, product_type, product_id, batch_date, quantity, unit_price]
  stock_out,        \* rows [id, warehouse_id, reason, transfer_id] (date, total_amount not read)
  stock_out_items,  \* rows [stockout_id, product_type, product_id, batch_date, quantity, unit_price]
  inventory_count,        \* rows [id, warehouse_id, date, count_code, total_loss_amount]
  inventory_count_items,  \* rows [count_id, product_type, product_id, system_qty, real_qty, loss_qty, loss_amount]
  call,             \* the arguments of the last stock computation, or NoCall
  result,           \* its result
  result2,          \* the result of a second call on the same ledger, or NoResult
  resultSeq,        \* the result of the sequential version for the same call, or NoResult
  issues,           \* the list validateStockConsistency returned, or NoResult
  \* Component state of each session (a browser tab), lost when the page changes
  page,             \* App.currentPage
  invoiceList,      \* InvoiceList.invoices: the loaded copy of the invoice rows
  fromWarehouse,    \* WarehouseTransfer.fromWarehouse, 0 for ''
  availableStock,   \* WarehouseTransfer.availableStock
  selectedWarehouse,\* selectedWarehouse of the mounted form (WarehouseEntry, InventoryCount), 0 for ''
  countCode,        \* InventoryCount.countCode: the number of COUNT-<year>-<number>, 0 for ''
  countRows,        \* InventoryCount.countRows
  modal,            \* the alert the mounted component shows (modal, alertModal), "" when closed
  \* Component state of a mounted WarehouseList and its running loadStocks calls
  listWarehouses,   \* WarehouseList.warehouses: the loaded warehouse ids, <<>> before the load
  listSelected,     \* WarehouseList.selectedWarehouse: 0 for '', AllOption for 'all'
  productsCache,    \* WarehouseList.productsCache is set
  stocks,           \* WarehouseList.stocks: the displayed rows
  displayedCount,   \* WarehouseList.displayedCount
  loading,          \* WarehouseList.loading
  loads             \* the loadStocks calls that have not finished, oldest first

storeVars == <<invoices, invoice_items, transfers, transfer_items, stock_out, stock_out_items,
               inventory_count, inventory_count_items>>
calcVars == <<call, result, result2, resultSeq, issues>>
uiVars == <<page, invoiceList, fromWarehouse, availableStock, selectedWarehouse,
            countCode, countRows, modal>>
listVars == <<listWarehouses, listSelected, productsCache, stocks, displayedCount,
              loading, loads>>
vars == <<storeVars, calcVars, uiVars, listVars>>

NoCall == [called |-> FALSE]
NoResult == [computed |-> FALSE]

\* The tables as one value; a table is the sequence of its rows in the order
\* the store returns them.
DB ==
  [invoices |-> invoices, invoice_items |-> invoice_items,
   transfers |-> transfers, transfer_items |-> transfer_items,
   stock_out |-> stock_out, stock_out_items |-> stock_out_items]

Range(s) == {s[i] : i \in 1..Len(s)}

\* ------------------------------------------------------------- queries
\* from('invoices').eq('warehouse_id', w).eq('status', 'active'); the variant
\* AllInvoicesOfWarehouse is the query without its status filter.
AllInvoicesOfWarehouse(db, warehouseId) ==
  SelectSeq(db.invoices, LAMBDA inv : inv.warehouse_id = warehouseId)
ActiveInvoices(db, warehouseId) ==
  SelectSeq(db.invoices,
            LAMBDA inv : inv.warehouse_id = warehouseId /\ inv.status = "active")

\* from('invoice_items').eq(product_type).eq(product_id).in('invoice_id', ids),
\* not issued when ids is empty
InvoiceEntries(db, invoiceIds, productId, productType) ==
  IF invoiceIds = {} THEN <<>>
  ELSE SelectSeq(db.invoice_items,
                 LAMBDA it : /\ it.product_type = productType
                             /\ it.product_id = productId
                             /\ it.invoice_id \in invoiceIds)

TransfersIn(db, warehouseId) ==
  SelectSeq(db.transfers, LAMBDA t : t.to_warehouse_id = warehouseId)

TransfersOut(db, warehouseId) ==
  SelectSeq(db.transfers, LAMBDA t : t.from_warehouse_id = warehouseId)

\* from('stock_out').eq('warehouse_id', w).neq('reason', 'transfer')
StockOuts(db, warehouseId) ==
  SelectSeq(db.stock_out,
            LAMBDA so : so.warehouse_id = warehouseId /\ so.reason # "transfer")

TransferItemsOf(db, transferIds, productId, productType) ==
  IF transferIds = {} THEN <<>>
  ELSE SelectSeq(db.transfer_items,
                 LAMBDA it : /\ it.product_type = productType
                             /\ it.product_id = productId
                             /\ it.transfer_id \in transferIds)

StockOutItemsOf(db, stockOutIds, productId, productType) ==
  IF stockOutIds = {} THEN <<>>
  ELSE SelectSeq(db.stock_out_items,
                 LAMBDA it : /\ it.product_type = productType
                             /\ it.product_id = productId
                             /\ it.stockout_id \in stockOutIds)

Ids(rows) == {rows[i].id : i \in 1..Len(rows)}

\* ------------------------------------------------- the stock computation
\* invoiceMap.get(id) || ''
InvoiceMapGetNone(invs, id) == ""
InvoiceMapGet(invs, id) ==
  IF \E i \in 1..Len(invs) : invs[i].id = id
  THEN (CHOOSE inv \in Range(invs) : inv.id = id).supplier
  ELSE ""

\* Set.add on a Set kept in insertion order
SetAdd(s, x) == IF x \in Range(s) THEN s ELSE Append(s, x)

\* One step of the two forEach loops that fill batchMap: the bucket of the
\* row's key is created on first use and keeps the Map's insertion order.
\* The variant BatchMapAddOverwrite assigns the quantity instead of adding it.
BatchMapAddOverwrite(batchMap, row, withInvoice) ==
  LET key == BatchKey(row.batch_date, row.unit_price) IN
  IF \E i \in 1..Len(batchMap) : batchMap[i].key = key
  THEN [i \in 1..Len(batchMap) |->
          IF batchMap[i].key = key
          THEN [batchMap[i] EXCEPT
                  !.quantity = row.quantity,
                  !.invoiceIds = IF withInvoice THEN SetAdd(@, row.invoice_id) ELSE @]
          ELSE batchMap[i]]
  ELSE Append(batchMap,
              [key |-> key, quantity |-> row.quantity, price |-> row.unit_price,
               invoiceIds |-> IF withInvoice THEN <<row.invoice_id>> ELSE <<>>])

BatchMapAddAppend(batchMap, row, withInvoice) ==
  Append(batchMap,
         [key |-> BatchKey(row.batch_date, row.unit_price), quantity |-> row.quantity,
          price |-> row.unit_price,
          invoiceIds |-> IF withInvoice THEN <<row.invoice_id>> ELSE <<>>])

BatchMapAdd(batchMap, row, withInvoice) ==
  LET key == BatchKey(row.batch_date, row.unit_price) IN
  IF \E i \in 1..Len(batchMap) : batchMap[i].key = key
  THEN [i \in 1..Len(batchMap) |->
          IF batchMap[i].key = key
          THEN [batchMap[i] EXCEPT
                  !.quantity = @ + row.quantity,
                  !.invoiceIds = IF withInvoice THEN SetAdd(@, row.invoice_id) ELSE @]
          ELSE batchMap[i]]
  ELSE Append(batchMap,
              [key |-> key, quantity |-> row.quantity, price |-> row.unit_price,
               invoiceIds |-> IF withInvoice THEN <<row.invoice_id>> ELSE <<>>])

RECURSIVE FillBatchMap(_, _, _)
FillBatchMap(batchMap, rows, withInvoice) ==
  IF rows = <<>> THEN batchMap
  ELSE FillBatchMap(BatchMapAdd(batchMap, Head(rows), withInvoice), Tail(rows), withInvoice)

\* exitMap.get(batchDate) || 0 after the two forEach loops over the exits.
\* The variant ExitQtyLast sets the entry to each exit's quantity instead of
\* adding to it.
ExitQtyLast(exits, batchDate) ==
  LET onDate == SelectSeq(exits, LAMBDA exit : exit.batch_date = batchDate) IN
  IF onDate = <<>> THEN 0 ELSE onDate[Len(onDate)].quantity

RECURSIVE ExitQty(_, _)
ExitQty(exits, batchDate) ==
  IF exits = <<>> THEN 0
  ELSE (IF Head(exits).batch_date = batchDate THEN Head(exits).quantity ELSE 0)
       + ExitQty(Tail(exits), batchDate)

\* The loop over batchMap: acc carries batches, totalQuantity and totalValue;
\* a bucket is pushed and added to the totals only when its net is positive.
\* The variant NetBatchesKeepZero tests netQty >= 0.
RECURSIVE NetBatchesKeepZero(_, _, _, _)
NetBatchesKeepZero(batchMap, exits, invs, acc) ==
  IF batchMap = <<>> THEN acc
  ELSE LET value == Head(batchMap)
           batchDate == SplitFirst(value.key)
           netQty == value.quantity - ExitQty(exits, batchDate)
           supplier == IF Len(value.invoiceIds) > 0
                       THEN InvoiceMapGet(invs, value.invoiceIds[1])
                       ELSE ""
           next == IF netQty >= 0
                   THEN [batches |-> Append(acc.batches,
                                       [batch_date |-> batchDate, quantity |-> netQty,
                                        unit_price |-> value.price,
                                        total_price |-> netQty * value.price,
                                        supplier |-> supplier]),
                         totalQuantity |-> acc.totalQuantity + netQty,
                         totalValue |-> acc.totalValue + netQty * value.price]
                   ELSE acc
       IN NetBatchesKeepZero(Tail(batchMap), exits, invs, next)

RECURSIVE NetBatchesKeepAll(_, _, _, _)
NetBatchesKeepAll(batchMap, exits, invs, acc) ==
  IF batchMap = <<>> THEN acc
  ELSE LET value == Head(batchMap)
           batchDate == SplitFirst(value.key)
           netQty == value.quantity - ExitQty(exits, batchDate)
           supplier == IF Len(value.invoiceIds) > 0
                       THEN InvoiceMapGet(invs, value.invoiceIds[1])
                       ELSE ""
           next == [batches |-> Append(acc.batches,
                                  [batch_date |-> batchDate, quantity |-> netQty,
                                   unit_price |-> value.price,
                                   total_price |-> netQty * value.price,
                                   supplier |-> supplier]),
                    totalQuantity |-> acc.totalQuantity + netQty,
                    totalValue |-> acc.totalValue + netQty * value.price]
       IN NetBatchesKeepAll(Tail(batchMap), exits, invs, next)

RECURSIVE NetBatches(_, _, _, _)
NetBatches(batchMap, exits, invs, acc) ==
  IF batchMap = <<>> THEN acc
  ELSE LET value == Head(batchMap)
           batchDate == SplitFirst(value.key)
           exitQty == ExitQty(exits, batchDate)
           netQty == value.quantity - exitQty
           supplier == IF Len(value.invoiceIds) > 0
                       THEN InvoiceMapGet(invs, value.invoiceIds[1])
                       ELSE ""
           next == IF netQty > 0
                   THEN [batches |-> Append(acc.batches,
                                       [batch_date |-> batchDate, quantity |-> netQty,
                                        unit_price |-> value.price,
                                        total_price |-> netQty * value.price,
                                        supplier |-> supplier]),
                         totalQuantity |-> acc.totalQuantity + netQty,
                         totalValue |-> acc.totalValue + netQty * value.price]
                   ELSE acc
       IN NetBatches(Tail(batchMap), exits, invs, next)

RECURSIVE SumField(_, _)
SumField(rows, f) ==
  IF rows = <<>> THEN 0 ELSE Head(rows)[f] + SumField(Tail(rows), f)

\* The comparator of batches.sort: negative when a goes first; the variant
\* CompareAscending swaps its operands.
CompareAscending(a, b) == localeCompare(a.batch_date, b.batch_date)
CompareBatches(a, b) == localeCompare(b.batch_date, a.batch_date)

\* Array.prototype.sort is stable: insertion of each element after the last
\* element that does not compare greater.
RECURSIVE InsertSorted(_, _)
InsertSorted(sorted, x) ==
  IF sorted = <<>> THEN <<x>>
  ELSE IF CompareBatches(Head(sorted), x) <= 0
       THEN <<Head(sorted)>> \o InsertSorted(Tail(sorted), x)
       ELSE <<x>> \o sorted

RECURSIVE SortBatches(_)
SortBatches(batches) ==
  IF batches = <<>> THEN <<>>
  ELSE InsertSorted(SortBatches(SubSeq(batches, 1, Len(batches) - 1)),
                    batches[Len(batches)])

calculateProductStockInWarehouse(db, warehouseId, productId, productType) ==
  LET invs == ActiveInvoices(db, warehouseId)
      entries == InvoiceEntries(db, Ids(invs), productId, productType)
      transferItemsIn ==
        TransferItemsOf(db, Ids(TransfersIn(db, warehouseId)), productId, productType)
      stockOutItems ==
        StockOutItemsOf(db, Ids(StockOuts(db, warehouseId)), productId, productType)
      transferItemsOut ==
        TransferItemsOf(db, Ids(TransfersOut(db, warehouseId)), productId, productType)
      batchMap == FillBatchMap(FillBatchMap(<<>>, entries, TRUE), transferItemsIn, FALSE)
      loop == NetBatches(batchMap, stockOutItems \o transferItemsOut, invs,
                         [batches |-> <<>>, totalQuantity |-> 0, totalValue |-> 0])
  IN [totalQuantity |-> loop.totalQuantity,
      totalValue |-> loop.totalValue,
      batches |-> SortBatches(loop.batches)]

\* The sequential version of the computation: the same queries one after
\* the other, and the supplier of a batch read from the invoices table when
\* the batch is built.
SupplierQuery(db, id) ==
  IF \E i \in 1..Len(db.invoices) : db.invoices[i].id = id
  THEN (CHOOSE inv \in Range(db.invoices) : inv.id = id).supplier
  ELSE ""

RECURSIVE NetBatchesSequential(_, _, _, _)
NetBatchesSequential(batchMap, exits, db, acc) ==
  IF batchMap = <<>> THEN acc
  ELSE LET value == Head(batchMap)
           batchDate == SplitFirst(value.key)
           exitQty == ExitQty(exits, batchDate)
           netQty == value.quantity - exitQty
           supplier == IF Len(value.invoiceIds) > 0
                       THEN SupplierQuery(db, value.invoiceIds[1])
                       ELSE ""
           next == IF netQty > 0
                   THEN [batches |-> Append(acc.batches,
                                       [batch_date |-> batchDate, quantity |-> netQty,
                                        unit_price |-> value.price,
                                        total_price |-> netQty * value.price,
                                        supplier |-> supplier]),
                         totalQuantity |-> acc.totalQuantity + netQty,
                         totalValue |-> acc.totalValue + netQty * value.price]
                   ELSE acc
       IN NetBatchesSequential(Tail(batchMap), exits, db, next)

calculateProductStockInWarehouseSequential(db, warehouseId, productId, productType) ==
  LET invoiceIds == Ids(ActiveInvoices(db, warehouseId))
      entries == InvoiceEntries(db, invoiceIds, productId, productType)
      transferItemsIn ==
        TransferItemsOf(db, Ids(TransfersIn(db, warehouseId)), productId, productType)
      stockOutItems ==
        StockOutItemsOf(db, Ids(StockOuts(db, warehouseId)), productId, productType)
      transferItemsOut ==
        TransferItemsOf(db, Ids(TransfersOut(db, warehouseId)), productId, productType)
      batchMap == FillBatchMap(FillBatchMap(<<>>, entries, TRUE), transferItemsIn, FALSE)
      loop == NetBatchesSequential(batchMap, stockOutItems \o transferItemsOut, db,
                                   [batches |-> <<>>, totalQuantity |-> 0, totalValue |-> 0])
  IN [totalQuantity |-> loop.totalQuantity,
      totalValue |-> loop.totalValue,
      batches |-> SortBatches(loop.batches)]

\* ------------------------------------------------------------------------
\* Sessions: every session starts on the default page with empty components.
\* ------------------------------------------------------------------------
Sessions == 1..NumSessions

\* WarehouseList before its mount effects have answered
InitList ==
  /\ listWarehouses = <<>>
  /\ listSelected = 0
  /\ productsCache = FALSE
  /\ stocks = <<>>
  /\ displayedCount = 0
  /\ loading = FALSE
  /\ loads = <<>>

InitUI ==
  /\ page = [s \in Sessions |-> "templates"]
  /\ invoiceList = [s \in Sessions |-> <<>>]
  /\ fromWarehouse = [s \in Sessions |-> 0]
  /\ availableStock = [s \in Sessions |-> <<>>]
  /\ selectedWarehouse = [s \in Sessions |-> 0]
  /\ countCode = [s \in Sessions |-> 0]
  /\ countRows = [s \in Sessions |-> <<>>]
  /\ modal = [s \in Sessions |-> ""]

\* ------------------------------------------------------------------------
\* The stock computation as a pure function: the ledger is drawn from a
\* bounded family of stores, the actions call the function on it.
\* ------------------------------------------------------------------------
SeqsUpTo(S, n) == UNION {[1..k -> S] : k \in 0..n}

\* Documents of the drawn ledgers: two active invoices of different suppliers
\* and a returned one at warehouse 1, one transfer in each direction between
\* warehouses 1 and 2, a loss stock-out and a transfer stock-out at warehouse 1.
LedgerInvoices ==
  << [id |-> 1, warehouse_id |-> 1, supplier |-> "Acme", status |-> "active",
      date |-> DateStr(1)],
     [id |-> 2, warehouse_id |-> 1, supplier |-> "Beta", status |-> "active",
      date |-> DateStr(1)],
     [id |-> 3, warehouse_id |-> 1, supplier |-> "Acme", status |-> "returned",
      date |-> DateStr(1)] >>
LedgerTransfers ==
  << [id |-> 1, from_warehouse_id |-> 2, to_warehouse_id |-> 1, date |-> DateStr(1)],
     [id |-> 2, from_warehouse_id |-> 1, to_warehouse_id |-> 2, date |-> DateStr(1)] >>
LedgerStockOuts ==
  << [id |-> 1, warehouse_id |-> 1, reason |-> "inventory_loss", transfer_id |-> 0],
     [id |-> 2, warehouse_id |-> 1, reason |-> "transfer", transfer_id |-> 2] >>

\* Lines of the product under study (reagent 1) are drawn; every ledger also
\* holds one line of the consumable with the same id in each table.
InvoiceLineSpace ==
  [invoice_id : Ids(LedgerInvoices), product_type : {"reagent"}, product_id : {1},
   quantity : Quantities, unit_price : Prices, batch_date : Dates]
TransferLineSpace ==
  [transfer_id : Ids(LedgerTransfers), product_type : {"reagent"}, product_id : {1},
   quantity : Quantities, unit_price : Prices, batch_date : Dates]
StockOutLineSpace ==
  [stockout_id : Ids(LedgerStockOuts), product_type : {"reagent"}, product_id : {1},
   quantity : Quantities, unit_price : {[num |-> 1, den |-> 1]}, batch_date : Dates]
OtherProductLine(parent, id, price) ==
  [product_type |-> "consumable", product_id |-> 1, quantity |-> MaxQty,
   unit_price |-> price, batch_date |-> DateStr(1)] @@ (parent :> id)

InitCalc ==
  /\ invoices = LedgerInvoices
  /\ transfers = LedgerTransfers
  /\ stock_out = LedgerStockOuts
  /\ \E s \in SeqsUpTo(InvoiceLineSpace, MaxInvoiceLines) :
        invoice_items = s \o <<OtherProductLine("invoice_id", 1, 1)>>
  /\ \E s \in SeqsUpTo(TransferLineSpace, MaxTransferLines) :
        transfer_items = s \o <<OtherProductLine("transfer_id", 1, 1)>>
  /\ \E s \in SeqsUpTo(StockOutLineSpace, MaxStockOutLines) :
        stock_out_items = s \o <<OtherProductLine("stockout_id", 1, [num |-> 1, den |-> 1])>>
  /\ inventory_count = <<>>
  /\ inventory_count_items = <<>>
  /\ call = NoCall
  /\ result = NoResult
  /\ result2 = NoResult
  /\ resultSeq = NoResult
  /\ InitList
  /\ issues = NoResult
  /\ InitUI

Computed(r) == [computed |-> TRUE] @@ r

\* A caller invokes calculateProductStockInWarehouse(w, id, type).
Compute(warehouseId, productId, productType) ==
  /\ ~call.called
  /\ call' = [called |-> TRUE, warehouseId |-> warehouseId, productId |-> productId,
              productType |-> productType]
  /\ result' = Computed(calculateProductStockInWarehouse(DB, warehouseId, productId, productType))
  /\ UNCHANGED <<storeVars, uiVars, listVars, result2, resultSeq, issues>>

\* The rows of a table in another order.
Reordered(rows) ==
  {[i \in 1..Len(rows) |-> rows[f[i]]] : f \in Permutations(1..Len(rows))}

\* The same call again, with no write in between; the store may return the
\* rows of the line tables in any order (the queries carry no ORDER BY).
ComputeAgain ==
  /\ call.called
  /\ ~result2.computed
  /\ \E ii \in Reordered(invoice_items), ti \in Reordered(transfer_items) :
        result2' = Computed(calculateProductStockInWarehouse(
                     [DB EXCEPT !.invoice_items = ii, !.transfer_items = ti],
                     call.warehouseId, call.productId, call.productType))
  /\ UNCHANGED <<storeVars, uiVars, listVars, call, result, resultSeq, issues>>

NextCalc ==
  \/ \E w \in Warehouses, id \in ProductIds, t \in ProductTypes : Compute(w, id, t)
  \/ ComputeAgain

SpecCalc == InitCalc /\ [][NextCalc]_vars

\* The two versions of the computation called with the same arguments on the
\* same ledger.
ComputeSequential ==
  /\ call.called
  /\ ~resultSeq.computed
  /\ resultSeq' = Computed(calculateProductStockInWarehouseSequential(
                             DB, call.warehouseId, call.productId, call.productType))
  /\ UNCHANGED <<storeVars, uiVars, listVars, call, result, result2, issues>>

NextVersions ==
  \/ \E w \in Warehouses, id \in ProductIds, t \in ProductTypes : Compute(w, id, t)
  \/ ComputeSequential

SpecVersions == InitCalc /\ [][NextVersions]_vars

\* ------------------------------------------------------------------------
\* The ledger read directly, row by row, for the arguments of the call.
\* ------------------------------------------------------------------------
IsProduct(it) == it.product_id = call.productId /\ it.product_type = call.productType

InvoiceOf(it) == CHOOSE inv \in Range(invoices) : inv.id = it.invoice_id
TransferOf(it) == CHOOSE t \in Range(transfers) : t.id = it.transfer_id
StockOutOf(it) == CHOOSE so \in Range(stock_out) : so.id = it.stockout_id

\* Stock-increasing lines of the call's warehouse and product.
ActiveInvoiceLines ==
  SelectSeq(invoice_items,
            LAMBDA it : /\ IsProduct(it)
                        /\ InvoiceOf(it).warehouse_id = call.warehouseId
                        /\ InvoiceOf(it).status = "active")
TransferInLines ==
  SelectSeq(transfer_items,
            LAMBDA it : IsProduct(it) /\ TransferOf(it).to_warehouse_id = call.warehouseId)
\* Stock-decreasing lines.
TransferOutLines ==
  SelectSeq(transfer_items,
            LAMBDA it : IsProduct(it) /\ TransferOf(it).from_warehouse_id = call.warehouseId)
StockOutLines ==
  SelectSeq(stock_out_items,
            LAMBDA it : IsProduct(it) /\ StockOutOf(it).warehouse_id = call.warehouseId)
StockOutLinesRead ==
  SelectSeq(StockOutLines, LAMBDA it : StockOutOf(it).reason # "transfer")

Qty(rows) == SumField(rows, "quantity")
OnDate(rows, d) == SelectSeq(rows, LAMBDA it : it.batch_date = d)
AtPrice(rows, pr) == SelectSeq(rows, LAMBDA it : it.unit_price = pr)

ReceiptQty(d, pr) ==
  Qty(AtPrice(OnDate(ActiveInvoiceLines, d), pr)) + Qty(AtPrice(OnDate(TransferInLines, d), pr))
ReceiptQtyOnDate(d) == Qty(OnDate(ActiveInvoiceLines, d)) + Qty(OnDate(TransferInLines, d))
ExitQtyOnDate(d) == Qty(OnDate(StockOutLinesRead, d)) + Qty(OnDate(TransferOutLines, d))
ExitQtyAllReasonsOnDate(d) == Qty(OnDate(StockOutLines, d)) + Qty(OnDate(TransferOutLines, d))

BatchIndexes(r, d, pr) ==
  {i \in 1..Len(r.batches) : r.batches[i].batch_date = d /\ r.batches[i].unit_price = pr}

\* C1 (as claimed): on a ledger whose decreases never exceed the increases of
\* the batch date they deplete, totalQuantity is the algebraic sum of the
\* signed events the function reads, and is not negative.
C1_ExactAlgebraicSum ==
  (call.called /\ \A d \in Dates : ExitQtyOnDate(d) <= ReceiptQtyOnDate(d))
    => /\ result.totalQuantity =
            Qty(ActiveInvoiceLines) + Qty(TransferInLines)
            - Qty(TransferOutLines) - Qty(StockOutLinesRead)
       /\ result.totalQuantity >= 0

\* C6 (as claimed): stock-out lines of every reason, 'transfer' included,
\* reduce the computed stock. Stated on ledgers with one price per batch date
\* and no date depleted below zero, where the per-date netting is exact.
C6_AllReasonsReduce ==
  (/\ call.called
   /\ \A d \in Dates : ExitQtyAllReasonsOnDate(d) <= ReceiptQtyOnDate(d)
   /\ \A d \in Dates : Cardinality({pr \in Prices : ReceiptQty(d, pr) > 0}) <= 1)
    => result.totalQuantity =
         Qty(ActiveInvoiceLines) + Qty(TransferInLines)
         - Qty(TransferOutLines) - Qty(StockOutLines)

\* C7: receipts of one batch_date at different unit prices are distinct
\* entries of batches[], receipts of one batch_date and unit price (invoice
\* lines and transfer-in lines alike) are one entry holding their summed
\* quantity less the exits of the date, whenever that net is positive.
C7_BatchSeparation ==
  call.called =>
    \A d \in Dates, pr \in Prices :
      LET net == ReceiptQty(d, pr) - ExitQtyOnDate(d) IN
      net > 0 =>
        /\ Cardinality(BatchIndexes(result, d, pr)) = 1
        /\ \A i \in BatchIndexes(result, d, pr) : result.batches[i].quantity = net

\* Both cases of C7 in one result: two entries of one date at two prices, one
\* of them merged from an invoice line and a transfer-in line.
C7_Witness ==
  /\ call.called
  /\ \E d \in Dates, p1 \in Prices, p2 \in Prices :
       /\ p1 # p2
       /\ BatchIndexes(result, d, p1) # {} /\ BatchIndexes(result, d, p2) # {}
       /\ Len(AtPrice(OnDate(ActiveInvoiceLines, d), p1)) >= 1
       /\ Len(AtPrice(OnDate(TransferInLines, d), p1)) >= 1

\* C8: batches[] is ordered by batch_date descending.
C8_SortedDescending ==
  call.called =>
    \A i \in 1..(Len(result.batches) - 1) :
      localeCompare(result.batches[i].batch_date, result.batches[i + 1].batch_date) >= 0

\* Three buckets whose first received row carries the earliest date, so that
\* the sort has reordered them.
C8_Witness ==
  /\ call.called
  /\ Len(result.batches) >= 3
  /\ Len(ActiveInvoiceLines) >= 1
  /\ ActiveInvoiceLines[1].batch_date = DateStr(1)
  /\ result.batches[1].batch_date = DateStr(2)
  /\ result.batches[Len(result.batches)].batch_date = DateStr(1)

\* C9 (as claimed): a second call with the same arguments and no write in
\* between returns the identical result, whatever order the rows come in.
C9_SameResultTwice == result2.computed => result2 = result

\* The ledger without its returned invoices and their lines.
WithoutReturned(db) ==
  [db EXCEPT
     !.invoices = SelectSeq(@, LAMBDA inv : inv.status # "returned"),
     !.invoice_items =
        SelectSeq(@, LAMBDA it :
          \A inv \in Range(db.invoices) : inv.id = it.invoice_id => inv.status # "returned")]

\* C10: lines of a returned invoice contribute nothing: the result equals the
\* result on the ledger with the returned invoices and their lines removed.
C10_ReturnedExcluded ==
  call.called =>
    result = Computed(calculateProductStockInWarehouse(
               WithoutReturned(DB), call.warehouseId, call.productId, call.productType))

\* A call on a ledger where a returned invoice has a line of the product, on
\* a batch that active receipts keep in stock.
C10_Witness ==
  /\ call.called
  /\ Len(result.batches) >= 1
  /\ \E i \in 1..Len(invoice_items) :
       /\ IsProduct(invoice_items[i])
       /\ InvoiceOf(invoice_items[i]).status = "returned"
       /\ InvoiceOf(invoice_items[i]).warehouse_id = call.warehouseId
       /\ BatchIndexes(result, invoice_items[i].batch_date, invoice_items[i].unit_price) # {}

\* The buckets a ledger can hold, in a fixed order, and sums over them.
BucketSeq ==
  [k \in 1..(NumDates * MaxPrice) |->
     [batch_date |-> DateStr(((k - 1) \div MaxPrice) + 1),
      unit_price |-> ((k - 1) % MaxPrice) + 1]]

RECURSIVE SumSeq(_)
SumSeq(ns) == IF ns = <<>> THEN 0 ELSE Head(ns) + SumSeq(Tail(ns))

MinOfQty(a, b) == IF a < b THEN a ELSE b

\* The net of a bucket as the ledger gives it, and its positive part.
NetOf(b) == ReceiptQty(b.batch_date, b.unit_price) - ExitQtyOnDate(b.batch_date)
PosNet(b) == IF NetOf(b) > 0 THEN NetOf(b) ELSE 0

\* C13: on every ledger, one with only decreasing events included, the
\* result has totalQuantity >= 0 and only batches of quantity > 0; a bucket
\* whose net is zero or negative is in no entry of batches[] and adds nothing
\* to totalQuantity and totalValue.
C13_OnlyPositiveBuckets ==
  call.called =>
    /\ result.totalQuantity >= 0
    /\ \A i \in 1..Len(result.batches) : result.batches[i].quantity > 0
    /\ \A k \in 1..Len(BucketSeq) :
         NetOf(BucketSeq[k]) <= 0 =>
           BatchIndexes(result, BucketSeq[k].batch_date, BucketSeq[k].unit_price) = {}
    /\ result.totalQuantity = SumSeq([k \in 1..Len(BucketSeq) |-> PosNet(BucketSeq[k])])
    /\ result.totalValue =
         SumSeq([k \in 1..Len(BucketSeq) |-> PosNet(BucketSeq[k]) * BucketSeq[k].unit_price])

\* A call that dropped a bucket with receipts whose net is zero, and one on a
\* ledger that holds only decreasing events of the product.
C13_Witness ==
  /\ call.called
  /\ \/ \E k \in 1..Len(BucketSeq) :
          /\ ReceiptQty(BucketSeq[k].batch_date, BucketSeq[k].unit_price) > 0
          /\ NetOf(BucketSeq[k]) = 0
          /\ Len(result.batches) >= 1
     \/ /\ Len(ActiveInvoiceLines) + Len(TransferInLines) = 0
        /\ Len(StockOutLinesRead) + Len(TransferOutLines) > 0
        /\ result.totalQuantity = 0

\* The quantity the result shows for a bucket, 0 when it shows none.
EntryQty(r, b) ==
  LET at == BatchIndexes(r, b.batch_date, b.unit_price) IN
  IF at = {} THEN 0 ELSE r.batches[CHOOSE i \in at : TRUE].quantity

\* C19: decreases are summed per batch_date only, and every (batch_date,
\* unit_price) bucket is reduced by the full decrease total of its date, down
\* to nothing at most: several price buckets of one date are each reduced by
\* the same total, not by a share of it.
C19_FullDateTotalPerBucket ==
  call.called =>
    \A k \in 1..Len(BucketSeq) :
      LET b == BucketSeq[k]
          received == ReceiptQty(b.batch_date, b.unit_price)
      IN received > 0 =>
           received - EntryQty(result, b) = MinOfQty(received, ExitQtyOnDate(b.batch_date))

\* One date with two price buckets in the result, both reduced by exits of
\* that date.
C19_Witness ==
  /\ call.called
  /\ \E d \in Dates, p1 \in Prices, p2 \in Prices :
       /\ p1 # p2
       /\ ExitQtyOnDate(d) > 0
       /\ EntryQty(result, [batch_date |-> d, unit_price |-> p1]) > 0
       /\ EntryQty(result, [batch_date |-> d, unit_price |-> p2]) > 0

\* Ledgers in which no batch_date has receipts at more than one unit_price.
OnePricePerDate ==
  \A d \in Dates : Cardinality({pr \in Prices : ReceiptQty(d, pr) > 0}) <= 1

Pages == {"entry", "transfer", "count"}

\* The catalog as the forms read it: reagents then consumables. Ids are
\* generated and distinct across both tables; the codes are free text, here
\* such that the consumables sort before the reagents.
allProducts ==
  [i \in 1..(2 * NumProductIds) |->
     [type |-> IF i <= NumProductIds THEN "reagent" ELSE "consumable",
      id |-> i, code |-> NumStr(2 * NumProductIds + 1 - i)]]
Catalog == Range(allProducts)

\* rows.sort((a, b) => a.product_code.localeCompare(b.product_code)), stable
RECURSIVE InsertByCode(_, _)
InsertByCode(sorted, x) ==
  IF sorted = <<>> THEN <<x>>
  ELSE IF localeCompare(Head(sorted).product_code, x.product_code) <= 0
       THEN <<Head(sorted)>> \o InsertByCode(Tail(sorted), x)
       ELSE <<x>> \o sorted

RECURSIVE SortByCode(_)
SortByCode(rows) ==
  IF rows = <<>> THEN <<>>
  ELSE InsertByCode(SortByCode(SubSeq(rows, 1, Len(rows) - 1)), rows[Len(rows)])

\* A rational number num/den (den > 0), for the average unit price of a count.
Frac(n, d) == [num |-> n, den |-> d]

StockOf(db, warehouseId, product) ==
  calculateProductStockInWarehouse(db, warehouseId, product.id, product.type)

\* Documents written so far; the model stops writing at MaxDocs of them, and
\* stops editing a form that can no longer be submitted.
DocCount == Len(invoices) + Len(transfers) + Len(inventory_count)
            + Len(SelectSeq(stock_out, LAMBDA so : so.reason = "invoice_return"))

ResetForms(s) ==
  /\ invoiceList' = [invoiceList EXCEPT ![s] = <<>>]
  /\ fromWarehouse' = [fromWarehouse EXCEPT ![s] = 0]
  /\ availableStock' = [availableStock EXCEPT ![s] = <<>>]
  /\ selectedWarehouse' = [selectedWarehouse EXCEPT ![s] = 0]
  /\ countCode' = [countCode EXCEPT ![s] = 0]
  /\ countRows' = [countRows EXCEPT ![s] = <<>>]
  /\ modal' = [modal EXCEPT ![s] = ""]

\* The component opens its alert: setModal({ isOpen: true, message, type }).
\* The alert covers the page; nothing else can be done until it is closed.
setModal(s, message) == modal' = [modal EXCEPT ![s] = message]

\* Modal.onClose
closeModal(s) ==
  /\ modal[s] # ""
  /\ modal' = [modal EXCEPT ![s] = ""]
  /\ UNCHANGED <<storeVars, calcVars, listVars, page, invoiceList, fromWarehouse, availableStock,
                 selectedWarehouse, countCode, countRows>>

\* App: the menu shows another page; the components of the old one unmount.
Navigate(s, p) ==
  /\ modal[s] = ""
  /\ page[s] # p
  /\ page' = [page EXCEPT ![s] = p]
  /\ ResetForms(s)
  /\ UNCHANGED <<storeVars, calcVars, listVars>>

\* from('invoices').order('date', { ascending: false }); rows of one date
\* keep the order of the table.
RECURSIVE InsertByDate(_, _)
InsertByDate(sorted, x) ==
  IF sorted = <<>> THEN <<x>>
  ELSE IF localeCompare(Head(sorted).date, x.date) >= 0
       THEN <<Head(sorted)>> \o InsertByDate(Tail(sorted), x)
       ELSE <<x>> \o sorted

RECURSIVE OrderByDateDesc(_)
OrderByDateDesc(rows) ==
  IF rows = <<>> THEN <<>>
  ELSE InsertByDate(OrderByDateDesc(SubSeq(rows, 1, Len(rows) - 1)), rows[Len(rows)])

\* The query of InvoiceList.loadInvoices for the prop warehouseId (0: none)
InvoicesShown(invs, warehouseId) ==
  OrderByDateDesc(IF warehouseId = 0 THEN invs
                  ELSE SelectSeq(invs, LAMBDA inv : inv.warehouse_id = warehouseId))

\* InvoiceList.loadInvoices, run on mount and whenever the warehouse selected
\* in the entry form (the prop warehouseId) changes
loadInvoices(s, warehouse) ==
  /\ page[s] = "entry"
  /\ modal[s] = ""
  /\ selectedWarehouse' = [selectedWarehouse EXCEPT ![s] = warehouse]
  /\ invoiceList' = [invoiceList EXCEPT ![s] = InvoicesShown(invoices, warehouse)]
  /\ UNCHANGED <<storeVars, calcVars, listVars, page, fromWarehouse, availableStock,
                 countCode, countRows, modal>>

\* WarehouseEntry.handleSubmit
EntrySuppliers == {"Acme"}
EntryRows ==
  UNION {[1..k -> [product : Catalog, quantity : 0..MaxQty, unit_price : Prices]] :
           k \in 1..MaxEntryRows}

EntryItems(invoiceId, date, rows) ==
  [i \in 1..Len(rows) |->
     [invoice_id |-> invoiceId, product_type |-> rows[i].product.type,
      product_id |-> rows[i].product.id, quantity |-> rows[i].quantity,
      unit_price |-> rows[i].unit_price, batch_date |-> date]]

EntrySubmit(s, supplier, date, rows, err) ==
  /\ page[s] = "entry"
  /\ modal[s] = ""
  /\ Len(invoices) < MaxInvoices /\ DocCount < MaxDocs
  /\ IF \/ selectedWarehouse[s] = 0
        \/ \E i \in 1..Len(rows) : rows[i].quantity <= 0 \/ rows[i].unit_price < 0
        \/ err \in {"invoice", "items"}
     THEN \* rejected, or the invoice row was not kept
          /\ setModal(s, IF selectedWarehouse[s] = 0 THEN "fill all fields"
                         ELSE IF err = "invoice" THEN "invoice not created"
                         ELSE IF err = "items" THEN "items not added"
                         ELSE "rows not valid")
          /\ UNCHANGED <<storeVars, calcVars, listVars, page, invoiceList, fromWarehouse,
                         availableStock, selectedWarehouse, countCode, countRows>>
     ELSE LET invoice == [id |-> Len(invoices) + 1, warehouse_id |-> selectedWarehouse[s],
                          supplier |-> supplier, date |-> date, status |-> "active"]
          IN /\ invoices' = Append(invoices, invoice)
             /\ invoice_items' = invoice_items \o EntryItems(invoice.id, date, rows)
             /\ invoiceList' = [invoiceList EXCEPT ![s] =
                                     InvoicesShown(invoices', selectedWarehouse[s])]
             /\ setModal(s, "invoice saved")
             /\ UNCHANGED <<transfers, transfer_items, stock_out, stock_out_items,
                            inventory_count, inventory_count_items, calcVars, listVars, page,
                            fromWarehouse, availableStock, selectedWarehouse,
                            countCode, countRows>>

\* InvoiceList.returnInvoice, on a row of the loaded list that shows the
\* return button
ReturnItems(stockOutId, items) ==
  [i \in 1..Len(items) |->
     [stockout_id |-> stockOutId, product_type |-> items[i].product_type,
      product_id |-> items[i].product_id, batch_date |-> items[i].batch_date,
      quantity |-> items[i].quantity, unit_price |-> Frac(items[i].unit_price, 1)]]

MarkReturned(invs, id) ==
  [i \in 1..Len(invs) |->
     IF invs[i].id = id THEN [invs[i] EXCEPT !.status = "returned"] ELSE invs[i]]

\* The lines of the invoice the loop of returnInvoice stops at: the computed
\* stock of the product in the warehouse of the invoice is below the line.
ShortLinesNone(db, warehouseId, items) == {}
ShortLines(db, warehouseId, items) ==
  {k \in 1..Len(items) :
     calculateProductStockInWarehouse(db, warehouseId, items[k].product_id,
                                      items[k].product_type).totalQuantity
       < items[k].quantity}

returnInvoice(s, i, err) ==
  /\ page[s] = "entry"
  /\ modal[s] = ""
  /\ i \in 1..Len(invoiceList[s])
  /\ invoiceList[s][i].status = "active"
  /\ Len(SelectSeq(stock_out, LAMBDA so : so.reason = "invoice_return")) < MaxReturns
  /\ LET invoice == invoiceList[s][i]
         items == SelectSeq(invoice_items, LAMBDA it : it.invoice_id = invoice.id)
         short == ShortLines(DB, invoice.warehouse_id, items) # {}
         stockOut == [id |-> Len(stock_out) + 1, warehouse_id |-> invoice.warehouse_id,
                      reason |-> "invoice_return", transfer_id |-> 0]
     IN IF items = <<>> THEN UNCHANGED vars   \* nothing to return
        ELSE IF short \/ err \in {"stock_out", "items"}
        THEN \* blocked, or the stock-out was not kept
             /\ setModal(s, IF short THEN "insufficient stock"
                            ELSE IF err = "stock_out" THEN "return not created"
                            ELSE "return items not added")
             /\ UNCHANGED <<storeVars, calcVars, listVars, page, invoiceList, fromWarehouse,
                            availableStock, selectedWarehouse, countCode, countRows>>
        ELSE /\ stock_out' = Append(stock_out, stockOut)
             /\ stock_out_items' = stock_out_items \o ReturnItems(stockOut.id, items)
             /\ IF err = "update"
                THEN /\ setModal(s, "status not updated")
                     /\ UNCHANGED <<invoices, invoiceList>>
                ELSE /\ invoices' = MarkReturned(invoices, invoice.id)
                     /\ invoiceList' = [invoiceList EXCEPT ![s] =
                                     InvoicesShown(invoices', selectedWarehouse[s])]
                     /\ setModal(s, "invoice returned")
             /\ UNCHANGED <<invoice_items, transfers, transfer_items, inventory_count,
                            inventory_count_items, calcVars, listVars, page, fromWarehouse,
                            availableStock, selectedWarehouse, countCode, countRows>>

\* WarehouseTransfer.loadWarehouseStock, run when fromWarehouse is selected
TransferRows(product, batches) ==
  [i \in 1..Len(batches) |->
     [product_id |-> product.id, product_code |-> product.code,
      product_type |-> product.type,
      batch_date |-> batches[i].batch_date, supplier |-> batches[i].supplier,
      quantity |-> batches[i].quantity, unit_price |-> batches[i].unit_price,
      selected |-> FALSE, transfer_quantity |-> 0]]

RECURSIVE StockItems(_, _, _)
StockItems(db, warehouseId, products) ==
  IF products = <<>> THEN <<>>
  ELSE TransferRows(Head(products),
                    SelectSeq(StockOf(db, warehouseId, Head(products)).batches,
                              LAMBDA b : b.quantity > 0))
       \o StockItems(db, warehouseId, Tail(products))

loadWarehouseStock(s, warehouse) ==
  /\ page[s] = "transfer"
  /\ modal[s] = ""
  /\ fromWarehouse' = [fromWarehouse EXCEPT ![s] = warehouse]
  /\ availableStock' = [availableStock EXCEPT ![s] =
                         SortByCode(StockItems(DB, warehouse, allProducts))]
  /\ UNCHANGED <<storeVars, calcVars, listVars, page, invoiceList, selectedWarehouse,
                 countCode, countRows, modal>>

\* WarehouseTransfer.toggleSelection
toggleSelection(s, index) ==
  /\ page[s] = "transfer"
  /\ modal[s] = ""
  /\ Len(transfers) < MaxTransfers /\ DocCount < MaxDocs
  /\ index \in 1..Len(availableStock[s])
  /\ LET item == availableStock[s][index] IN
     availableStock' =
       [availableStock EXCEPT ![s][index] =
          [item EXCEPT !.selected = ~item.selected,
                       !.transfer_quantity = IF ~item.selected THEN item.quantity ELSE 0]]
  /\ UNCHANGED <<storeVars, calcVars, listVars, page, invoiceList, fromWarehouse,
                 selectedWarehouse, countCode, countRows, modal>>

\* WarehouseTransfer.updateTransferQuantity; the field is disabled on rows
\* that are not selected
MinOf(a, b) == IF a < b THEN a ELSE b

updateTransferQuantity(s, index, quantity) ==
  /\ page[s] = "transfer"
  /\ modal[s] = ""
  /\ Len(transfers) < MaxTransfers /\ DocCount < MaxDocs
  /\ index \in 1..Len(availableStock[s])
  /\ availableStock[s][index].selected
  /\ availableStock' =
       [availableStock EXCEPT ![s][index].transfer_quantity =
          MinOf(quantity, availableStock[s][index].quantity)]
  /\ UNCHANGED <<storeVars, calcVars, listVars, page, invoiceList, fromWarehouse,
                 selectedWarehouse, countCode, countRows, modal>>

\* WarehouseTransfer.handleSubmit
TransferItemsRedated(transferId, selectedItems) ==
  [i \in 1..Len(selectedItems) |->
     [transfer_id |-> transferId, product_type |-> selectedItems[i].product_type,
      product_id |-> selectedItems[i].product_id,
      batch_date |-> DateStr(NumDates),
      quantity |-> selectedItems[i].transfer_quantity,
      unit_price |-> selectedItems[i].unit_price]]
TransferItems(transferId, selectedItems) ==
  [i \in 1..Len(selectedItems) |->
     [transfer_id |-> transferId, product_type |-> selectedItems[i].product_type,
      product_id |-> selectedItems[i].product_id,
      batch_date |-> selectedItems[i].batch_date,
      quantity |-> selectedItems[i].transfer_quantity,
      unit_price |-> selectedItems[i].unit_price]]

ExitItems(stockOutId, selectedItems) ==
  [i \in 1..Len(selectedItems) |->
     [stockout_id |-> stockOutId, product_type |-> selectedItems[i].product_type,
      product_id |-> selectedItems[i].product_id,
      batch_date |-> selectedItems[i].batch_date,
      quantity |-> selectedItems[i].transfer_quantity,
      unit_price |-> Frac(selectedItems[i].unit_price, 1)]]

\* The checks handleSubmit makes before it writes: the message of the first
\* one that fails, "" when all pass.
validateTransferNone(from, to, selectedItems) == ""
validateTransfer(from, to, selectedItems) ==
  LET wrong == {i \in 1..Len(selectedItems) :
                  \/ selectedItems[i].transfer_quantity > selectedItems[i].quantity
                  \/ selectedItems[i].transfer_quantity <= 0}
      first == CHOOSE i \in wrong : \A j \in wrong : i <= j
  IN IF from = 0 \/ to = 0 \/ selectedItems = <<>> THEN "fill all fields"
     ELSE IF from = to THEN "same warehouse"
     ELSE IF wrong = {} THEN ""
     ELSE IF selectedItems[first].transfer_quantity > selectedItems[first].quantity
     THEN "more than the stock"
     ELSE "not above zero"

TransferSubmit(s, toWarehouse, date, err) ==
  /\ page[s] = "transfer"
  /\ modal[s] = ""
  /\ Len(transfers) < MaxTransfers /\ DocCount < MaxDocs
  /\ LET selectedItems ==
           SelectSeq(availableStock[s], LAMBDA item : item.selected /\ item.transfer_quantity > 0)
         invalid == validateTransfer(fromWarehouse[s], toWarehouse, selectedItems)
         transfer == [id |-> Len(transfers) + 1, from_warehouse_id |-> fromWarehouse[s],
                      to_warehouse_id |-> toWarehouse, date |-> date]
         stockOut == [id |-> Len(stock_out) + 1, warehouse_id |-> fromWarehouse[s],
                      reason |-> "transfer", transfer_id |-> transfer.id]
     IN IF invalid # "" \/ err \in {"transfer", "items"}
        THEN \* rejected, or the transfer row was not kept
             /\ setModal(s, IF invalid # "" THEN invalid
                            ELSE IF err = "transfer" THEN "transfer not created"
                            ELSE "transfer items not added")
             /\ UNCHANGED <<storeVars, calcVars, listVars, page, invoiceList, fromWarehouse,
                            availableStock, selectedWarehouse, countCode, countRows>>
        ELSE /\ transfers' = Append(transfers, transfer)
             /\ transfer_items' = transfer_items \o TransferItems(transfer.id, selectedItems)
             /\ stock_out' = IF err = "stock_out" THEN stock_out
                             ELSE Append(stock_out, stockOut)
             /\ stock_out_items' =
                  IF err \in {"stock_out", "stock_out_items"} THEN stock_out_items
                  ELSE stock_out_items \o ExitItems(stockOut.id, selectedItems)
             /\ fromWarehouse' = [fromWarehouse EXCEPT ![s] = 0]
             /\ availableStock' = [availableStock EXCEPT ![s] = <<>>]
             /\ setModal(s, "transfer done")
             /\ UNCHANGED <<invoices, invoice_items, inventory_count,
                            inventory_count_items, calcVars, listVars, page, invoiceList,
                            selectedWarehouse, countCode, countRows>>

\* InventoryCount.generateCountCode: one more than the number of the newest
\* count, 1 when there is none
generateCountCode ==
  IF inventory_count = <<>> THEN 1
  ELSE inventory_count[Len(inventory_count)].count_code + 1

\* InventoryCount.loadInventory
RECURSIVE CountRowsOf(_, _, _)
CountRowsOf(db, warehouseId, products) ==
  IF products = <<>> THEN <<>>
  ELSE LET product == Head(products)
           stock == StockOf(db, warehouseId, product)
       IN (IF stock.totalQuantity > 0
           THEN <<[product_id |-> product.id, product_code |-> product.code,
                   product_type |-> product.type,
                   system_qty |-> stock.totalQuantity, real_qty |-> stock.totalQuantity,
                   loss_qty |-> 0, loss_amount |-> Frac(0, 1),
                   unit_price |-> Frac(stock.totalValue, stock.totalQuantity)]>>
           ELSE <<>>)
          \o CountRowsOf(db, warehouseId, Tail(products))

\* The warehouse select of the count form: setSelectedWarehouse; the rows
\* and the code loaded before stay.
selectWarehouse(s, warehouse) ==
  /\ page[s] = "count"
  /\ modal[s] = ""
  /\ Len(inventory_count) < MaxCounts /\ DocCount < MaxDocs
  /\ warehouse # selectedWarehouse[s]
  /\ selectedWarehouse' = [selectedWarehouse EXCEPT ![s] = warehouse]
  /\ UNCHANGED <<storeVars, calcVars, listVars, page, invoiceList, fromWarehouse, availableStock,
                 countCode, countRows, modal>>

\* The button "load the list" of the count form, disabled while no warehouse
\* is selected
loadInventory(s) ==
  /\ page[s] = "count"
  /\ modal[s] = ""
  /\ selectedWarehouse[s] # 0
  /\ countCode' = [countCode EXCEPT ![s] = generateCountCode]
  /\ countRows' = [countRows EXCEPT ![s] =
                    SortByCode(CountRowsOf(DB, selectedWarehouse[s], allProducts))]
  /\ UNCHANGED <<storeVars, calcVars, listVars, page, invoiceList, fromWarehouse, availableStock,
                 selectedWarehouse, modal>>

\* InventoryCount.updateRealQty; the field accepts 0..system_qty
\* const lossQty = row.system_qty - realQty
lossQtyReal(systemQty, realQty) == realQty
lossQtyOf(systemQty, realQty) == systemQty - realQty

updateRealQty(s, productId, realQty) ==
  /\ page[s] = "count"
  /\ modal[s] = ""
  /\ Len(inventory_count) < MaxCounts /\ DocCount < MaxDocs
  /\ \E i \in 1..Len(countRows[s]) :
       countRows[s][i].product_id = productId /\ realQty <= countRows[s][i].system_qty
  /\ LET rows == countRows[s] IN
     countRows' =
       [countRows EXCEPT ![s] =
          [i \in 1..Len(rows) |->
             IF rows[i].product_id # productId THEN rows[i]
             ELSE LET lossQty == lossQtyOf(rows[i].system_qty, realQty) IN
                  [rows[i] EXCEPT !.real_qty = realQty, !.loss_qty = lossQty,
                                  !.loss_amount = Frac(lossQty * rows[i].unit_price.num,
                                                       rows[i].unit_price.den)]]]
  /\ UNCHANGED <<storeVars, calcVars, listVars, page, invoiceList, fromWarehouse, availableStock,
                 selectedWarehouse, countCode, modal>>

\* InventoryCount.handleSubmit
RECURSIVE SumFrac(_)
SumFrac(fs) ==
  IF fs = <<>> THEN Frac(0, 1)
  ELSE LET rest == SumFrac(Tail(fs)) IN
       Frac(Head(fs).num * rest.den + rest.num * Head(fs).den, Head(fs).den * rest.den)

CountItems(countId, rows) ==
  [i \in 1..Len(rows) |->
     [count_id |-> countId, product_type |-> rows[i].product_type,
      product_id |-> rows[i].product_id, system_qty |-> rows[i].system_qty,
      real_qty |-> rows[i].real_qty, loss_qty |-> rows[i].loss_qty,
      loss_amount |-> rows[i].loss_amount]]

LossItemsReal(stockOutId, date, lossItems) ==
  [i \in 1..Len(lossItems) |->
     [stockout_id |-> stockOutId, product_type |-> lossItems[i].product_type,
      product_id |-> lossItems[i].product_id, batch_date |-> date,
      quantity |-> lossItems[i].real_qty, unit_price |-> lossItems[i].unit_price]]
LossItems(stockOutId, date, lossItems) ==
  [i \in 1..Len(lossItems) |->
     [stockout_id |-> stockOutId, product_type |-> lossItems[i].product_type,
      product_id |-> lossItems[i].product_id, batch_date |-> date,
      quantity |-> lossItems[i].loss_qty, unit_price |-> lossItems[i].unit_price]]

CountSubmit(s, date, err) ==
  /\ page[s] = "count"
  /\ modal[s] = ""
  /\ Len(inventory_count) < MaxCounts /\ DocCount < MaxDocs
  /\ IF selectedWarehouse[s] = 0 \/ countRows[s] = <<>> \/ countCode[s] = 0
        \/ err \in {"count", "items"}
     THEN \* rejected, or the count row was not kept
          /\ setModal(s, IF selectedWarehouse[s] = 0 \/ countRows[s] = <<>>
                         THEN "load the list"
                         ELSE IF countCode[s] = 0 THEN "no count code"
                         ELSE IF err = "count" THEN "count not created"
                         ELSE "count items not added")
          /\ UNCHANGED <<storeVars, calcVars, listVars, page, invoiceList, fromWarehouse,
                         availableStock, selectedWarehouse, countCode, countRows>>
     ELSE LET rows == countRows[s]
              count == [id |-> Len(inventory_count) + 1,
                        warehouse_id |-> selectedWarehouse[s], date |-> date,
                        count_code |-> countCode[s],
                        total_loss_amount |->
                          SumFrac([i \in 1..Len(rows) |-> rows[i].loss_amount])]
              lossItems == SelectSeq(rows, LAMBDA row : row.loss_qty > 0)
              stockOut == [id |-> Len(stock_out) + 1,
                           warehouse_id |-> selectedWarehouse[s],
                           reason |-> "inventory_loss", transfer_id |-> 0]
          IN /\ inventory_count' = Append(inventory_count, count)
             /\ inventory_count_items' = inventory_count_items \o CountItems(count.id, rows)
             /\ stock_out' = IF lossItems = <<>> \/ err = "stock_out" THEN stock_out
                             ELSE Append(stock_out, stockOut)
             /\ stock_out_items' =
                  IF lossItems = <<>> \/ err \in {"stock_out", "stock_out_items"}
                  THEN stock_out_items
                  ELSE stock_out_items \o LossItems(stockOut.id, date, lossItems)
             /\ countRows' = [countRows EXCEPT ![s] = <<>>]
             /\ countCode' = [countCode EXCEPT ![s] = 0]
             /\ setModal(s, "count saved")
             /\ UNCHANGED <<invoices, invoice_items, transfers, transfer_items, calcVars, listVars,
                            page, invoiceList, fromWarehouse, availableStock,
                            selectedWarehouse>>

Init ==
  /\ invoices = <<>>
  /\ invoice_items = <<>>
  /\ transfers = <<>>
  /\ transfer_items = <<>>
  /\ stock_out = <<>>
  /\ stock_out_items = <<>>
  /\ inventory_count = <<>>
  /\ inventory_count_items = <<>>
  /\ call = NoCall
  /\ result = NoResult
  /\ result2 = NoResult
  /\ resultSeq = NoResult
  /\ InitList
  /\ issues = NoResult
  /\ InitUI

\* What one session can do next
Step(s) ==
  \/ \E p \in Pages : Navigate(s, p)
  \/ closeModal(s)
  \/ \E w \in 0..NumWarehouses : loadInvoices(s, w)
  \/ \E sup \in EntrySuppliers, d \in Dates, rows \in EntryRows,
        err \in {"none", "invoice", "items"} :
       EntrySubmit(s, sup, d, rows, err)
  \/ \E i \in 1..MaxInvoices, err \in {"none", "stock_out", "items", "update"} :
       DocCount < MaxDocs /\ returnInvoice(s, i, err)
  \/ \E w \in Warehouses : loadWarehouseStock(s, w)
  \/ \E i \in 1..(2 * MaxInvoices) : toggleSelection(s, i)
  \/ \E i \in 1..(2 * MaxInvoices), q \in 0..(MaxQty + 1) : updateTransferQuantity(s, i, q)
  \/ \E w \in 0..NumWarehouses, d \in Dates,
        err \in {"none", "transfer", "items", "stock_out", "stock_out_items"} :
       TransferSubmit(s, w, d, err)
  \/ \E w \in 0..NumWarehouses : selectWarehouse(s, w)
  \/ loadInventory(s)
  \/ \E id \in Range(allProducts), q \in 0..(2 * MaxQty) : updateRealQty(s, id.id, q)
  \/ \E d \in Dates, err \in {"none", "count", "items", "stock_out", "stock_out_items"} :
       CountSubmit(s, d, err)

Next == \E s \in Sessions : Step(s)

Spec == Init /\ [][Next]_vars

\* ------------------------------------------------------------------------
\* Several sessions on one store: NumTabs browser tabs work on a ledger that
\* holds one saved invoice. Every request reaches the store at once, so a
\* handler is still one step; what a tab has loaded stays as it was while
\* another tab writes.
\* ------------------------------------------------------------------------
Tabs == 1..NumTabs

InitShared ==
  /\ invoices = <<[id |-> 1, warehouse_id |-> 1, supplier |-> "Acme",
                   date |-> DateStr(1), status |-> "active"]>>
  /\ invoice_items = EntryItems(1, DateStr(1),
                                <<[product |-> allProducts[1], quantity |-> MaxQty,
                                   unit_price |-> 1]>>)
  /\ transfers = <<>>
  /\ transfer_items = <<>>
  /\ stock_out = <<>>
  /\ stock_out_items = <<>>
  /\ inventory_count = <<>>
  /\ inventory_count_items = <<>>
  /\ call = NoCall
  /\ result = NoResult
  /\ result2 = NoResult
  /\ resultSeq = NoResult
  /\ InitList
  /\ issues = NoResult
  /\ page = [s \in Tabs |-> "templates"]
  /\ invoiceList = [s \in Tabs |-> <<>>]
  /\ fromWarehouse = [s \in Tabs |-> 0]
  /\ availableStock = [s \in Tabs |-> <<>>]
  /\ selectedWarehouse = [s \in Tabs |-> 0]
  /\ countCode = [s \in Tabs |-> 0]
  /\ countRows = [s \in Tabs |-> <<>>]
  /\ modal = [s \in Tabs |-> ""]

\* What a tab does here: every handler but the entry of new invoices, with
\* store requests that succeed.
NextShared ==
  \E s \in Tabs :
    \/ \E p \in Pages : Navigate(s, p)
    \/ closeModal(s)
    \/ \E w \in Warehouses : loadInvoices(s, w)
    \/ \E i \in 1..MaxInvoices : DocCount < MaxDocs /\ returnInvoice(s, i, "none")
    \/ \E w \in Warehouses : loadWarehouseStock(s, w)
    \/ \E i \in 1..MaxInvoices : toggleSelection(s, i)
    \/ \E i \in 1..MaxInvoices, q \in 0..(MaxQty + 1) : updateTransferQuantity(s, i, q)
    \/ \E w \in Warehouses, d \in Dates : TransferSubmit(s, w, d, "none")
    \/ \E w \in Warehouses : selectWarehouse(s, w)
    \/ loadInventory(s)
    \/ \E id \in Range(allProducts), q \in 0..MaxQty : updateRealQty(s, id.id, q)
    \/ \E d \in Dates : CountSubmit(s, d, "none")

SpecShared == InitShared /\ [][NextShared]_vars

\* ------------------------------------------------------------------------
\* Returns from several tabs: the ledger holds two saved invoices of the same
\* product in the same warehouse, entered on different dates, and every tab
\* works on the invoice list it loaded. Store requests succeed.
\* ------------------------------------------------------------------------
InitReturns ==
  /\ invoices = <<[id |-> 1, warehouse_id |-> 1, supplier |-> "Acme",
                   date |-> DateStr(1), status |-> "active"],
                  [id |-> 2, warehouse_id |-> 1, supplier |-> "Acme",
                   date |-> DateStr(2), status |-> "active"]>>
  /\ invoice_items =
       EntryItems(1, DateStr(1), <<[product |-> allProducts[1], quantity |-> MaxQty,
                                    unit_price |-> 1]>>)
       \o EntryItems(2, DateStr(2), <<[product |-> allProducts[1], quantity |-> MaxQty,
                                       unit_price |-> 1]>>)
  /\ transfers = <<>>
  /\ transfer_items = <<>>
  /\ stock_out = <<>>
  /\ stock_out_items = <<>>
  /\ inventory_count = <<>>
  /\ inventory_count_items = <<>>
  /\ call = NoCall
  /\ result = NoResult
  /\ result2 = NoResult
  /\ resultSeq = NoResult
  /\ InitList
  /\ issues = NoResult
  /\ page = [s \in Tabs |-> "templates"]
  /\ invoiceList = [s \in Tabs |-> <<>>]
  /\ fromWarehouse = [s \in Tabs |-> 0]
  /\ availableStock = [s \in Tabs |-> <<>>]
  /\ selectedWarehouse = [s \in Tabs |-> 0]
  /\ countCode = [s \in Tabs |-> 0]
  /\ countRows = [s \in Tabs |-> <<>>]
  /\ modal = [s \in Tabs |-> ""]

NextReturns ==
  \E s \in Tabs :
    \/ \E p \in Pages : Navigate(s, p)
    \/ closeModal(s)
    \/ \E w \in 0..NumWarehouses : loadInvoices(s, w)
    \/ \E i \in 1..MaxInvoices : returnInvoice(s, i, "none")

SpecReturns == InitReturns /\ [][NextReturns]_vars

\* ------------------------------------------------------------------------
\* WarehouseList: the warehouse select starts a loadStocks call, which awaits
\* the product cache and then one chunk of batchSize products after another,
\* putting what it has collected on display after every chunk. A call runs
\* to its end whatever is selected meanwhile; the ledger is a saved one.
\* ------------------------------------------------------------------------
\* The option 'all' of the select
AllOption == NumWarehouses + 1

\* warehouse.name, and '' for the rows of a single warehouse, which carry none
WarehouseName(w) == IF w = 0 THEN <<>> ELSE NumStr(w)

\* The row processProductBatch pushes for a product with stock
StockRow(product, stock, warehouseId) ==
  [product_id |-> product.id, product_code |-> product.code,
   product_type |-> product.type,
   total_quantity |-> stock.totalQuantity, total_amount |-> stock.totalValue,
   last_entry_date |-> IF stock.batches # <<>> THEN stock.batches[1].batch_date ELSE <<>>,
   batches |-> stock.batches,
   warehouse_id |-> warehouseId, warehouse_name |-> WarehouseName(warehouseId)]

RECURSIVE RowsOfWarehouse(_, _, _, _)
RowsOfWarehouse(db, warehouseId, tag, products) ==
  IF products = <<>> THEN <<>>
  ELSE LET stock == StockOf(db, warehouseId, Head(products))
       IN (IF stock.totalQuantity > 0
           THEN <<StockRow(Head(products), stock, tag)>> ELSE <<>>)
          \o RowsOfWarehouse(db, warehouseId, tag, Tail(products))

\* processProductBatch of a call whose closure holds selected and whs
RECURSIVE processProductBatch(_, _, _, _)
processProductBatch(db, selected, whs, products) ==
  IF selected = AllOption
  THEN IF whs = <<>> THEN <<>>
       ELSE RowsOfWarehouse(db, Head(whs), Head(whs), products)
            \o processProductBatch(db, selected, Tail(whs), products)
  ELSE RowsOfWarehouse(db, selected, 0, products)

\* allResults.sort by warehouse_name, then product_code (stable)
CompareStocks(a, b) ==
  LET warehouseCompare == localeCompare(a.warehouse_name, b.warehouse_name)
  IN IF warehouseCompare # 0 THEN warehouseCompare
     ELSE localeCompare(a.product_code, b.product_code)

RECURSIVE InsertStock(_, _)
InsertStock(sorted, x) ==
  IF sorted = <<>> THEN <<x>>
  ELSE IF CompareStocks(Head(sorted), x) <= 0
       THEN <<Head(sorted)>> \o InsertStock(Tail(sorted), x)
       ELSE <<x>> \o sorted

RECURSIVE SortStocks(_)
SortStocks(rows) ==
  IF rows = <<>> THEN <<>>
  ELSE InsertStock(SortStocks(SubSeq(rows, 1, Len(rows) - 1)), rows[Len(rows)])

\* One turn of the loop of processBatches: allResults after the chunk at i
ChunkResults(db, load) ==
  SortStocks(load.allResults
             \o processProductBatch(db, load.selected, load.whs,
                                    SubSeq(allProducts, load.i + 1,
                                           MinOf(load.i + batchSize, Len(allProducts)))))

\* What a loadStocks call puts on display last when it runs alone
RECURSIVE processBatches(_, _)
processBatches(db, load) ==
  IF load.i >= Len(allProducts) THEN load.allResults
  ELSE processBatches(db, [load EXCEPT !.allResults = ChunkResults(db, load),
                                       !.i = load.i + batchSize])

\* The effect on selectedWarehouse, after a render in which it is selected
\* and the warehouses are whs: loadStocks up to its first await, or
\* setStocks([]) when nothing is selected.
selectedWarehouseEffect(selected, whs) ==
  IF selected # 0
  THEN /\ loading' = TRUE
       /\ stocks' = <<>>
       /\ displayedCount' = 0
       /\ loads' = Append(loads, [selected |-> selected, whs |-> whs, cached |-> FALSE,
                                  i |-> 0, allResults |-> <<>>])
  ELSE /\ stocks' = <<>>
       /\ UNCHANGED <<displayedCount, loading, loads>>

\* loadWarehouses answers: the first warehouse is selected
loadWarehouses ==
  /\ listWarehouses = <<>>
  /\ Len(loads) < MaxLoads
  /\ listWarehouses' = [w \in 1..NumWarehouses |-> w]
  /\ listSelected' = 1
  /\ selectedWarehouseEffect(1, listWarehouses')
  /\ UNCHANGED <<storeVars, calcVars, uiVars, productsCache>>

\* onChange of the warehouse select
setSelectedWarehouse(w) ==
  /\ w \in {0, AllOption} \cup Range(listWarehouses)
  /\ w # listSelected
  /\ Len(loads) < MaxLoads
  /\ listSelected' = w
  /\ selectedWarehouseEffect(w, listWarehouses)
  /\ UNCHANGED <<storeVars, calcVars, uiVars, listWarehouses, productsCache>>

RemoveAt(s, k) == SubSeq(s, 1, k - 1) \o SubSeq(s, k + 1, Len(s))

\* loadProductsCache answers for the k-th running call
loadProductsCache(k) ==
  /\ k \in 1..Len(loads)
  /\ ~loads[k].cached
  /\ productsCache' = TRUE
  /\ loads' = [loads EXCEPT ![k].cached = TRUE]
  /\ UNCHANGED <<storeVars, calcVars, uiVars, listWarehouses, listSelected, stocks,
                 displayedCount, loading>>

\* processProductBatch answers for the k-th running call: the call shows what
\* it has collected, and after its last chunk it ends
chunkLoaded(k) ==
  /\ k \in 1..Len(loads)
  /\ loads[k].cached
  /\ LET sorted == ChunkResults(DB, loads[k])
         next == loads[k].i + batchSize
     IN /\ stocks' = sorted
        /\ displayedCount' = Len(sorted)
        /\ IF next >= Len(allProducts)
           THEN /\ loading' = FALSE
                /\ loads' = RemoveAt(loads, k)
           ELSE /\ loads' = [loads EXCEPT ![k].allResults = sorted, ![k].i = next]
                /\ UNCHANGED loading
  /\ UNCHANGED <<storeVars, calcVars, uiVars, listWarehouses, listSelected, productsCache>>

\* A saved ledger: MaxQty of the first product in warehouse 1, one of the last
\* product in the last warehouse
InitWarehouseList ==
  /\ invoices = <<[id |-> 1, warehouse_id |-> 1, supplier |-> "Acme",
                   date |-> DateStr(1), status |-> "active"],
                  [id |-> 2, warehouse_id |-> NumWarehouses, supplier |-> "Beta",
                   date |-> DateStr(2), status |-> "active"]>>
  /\ invoice_items =
       EntryItems(1, DateStr(1), <<[product |-> allProducts[1], quantity |-> MaxQty,
                                    unit_price |-> 1]>>)
       \o EntryItems(2, DateStr(2), <<[product |-> allProducts[Len(allProducts)],
                                       quantity |-> 1, unit_price |-> 1]>>)
  /\ transfers = <<>>
  /\ transfer_items = <<>>
  /\ stock_out = <<>>
  /\ stock_out_items = <<>>
  /\ inventory_count = <<>>
  /\ inventory_count_items = <<>>
  /\ call = NoCall
  /\ result = NoResult
  /\ result2 = NoResult
  /\ resultSeq = NoResult
  /\ issues = NoResult
  /\ InitUI
  /\ InitList

NextWarehouseList ==
  \/ loadWarehouses
  \/ \E w \in 0..AllOption : setSelectedWarehouse(w)
  \/ \E k \in 1..MaxLoads : loadProductsCache(k)
  \/ \E k \in 1..MaxLoads : chunkLoaded(k)

SpecWarehouseList == InitWarehouseList /\ [][NextWarehouseList]_vars

\* ------------------------------------------------------------------------
\* The consistency sweep, run on a drawn ledger.
\* ------------------------------------------------------------------------
\* validateStockConsistency: one issue for every warehouse and product whose
\* computed totalQuantity is negative.
RECURSIVE IssuesOfWarehouse(_, _, _)
IssuesOfWarehouse(db, warehouseId, products) ==
  IF products = <<>> THEN <<>>
  ELSE LET product == Head(products)
           stock == StockOf(db, warehouseId, product)
       IN (IF stock.totalQuantity < 0
           THEN <<[warehouse_id |-> warehouseId, product_id |-> product.id,
                   product_code |-> product.code, product_type |-> product.type,
                   calculated_stock |-> stock.totalQuantity,
                   issue |-> "Negative stock detected"]>>
           ELSE <<>>)
          \o IssuesOfWarehouse(db, warehouseId, Tail(products))

RECURSIVE IssuesFrom(_, _)
IssuesFrom(db, w) ==
  IF w > NumWarehouses THEN <<>>
  ELSE IssuesOfWarehouse(db, w, allProducts) \o IssuesFrom(db, w + 1)

validateStockConsistency(db) == IssuesFrom(db, 1)

\* A caller runs the sweep.
Sweep ==
  /\ ~issues.computed
  /\ issues' = [computed |-> TRUE, list |-> validateStockConsistency(DB)]
  /\ UNCHANGED <<storeVars, uiVars, listVars, call, result, result2, resultSeq>>

SpecSweep == InitCalc /\ [][Sweep]_vars

\* ------------------------------------------------------------------------
\* Failed queries. The store answers a query that failed with data: null and
\* an error the functions do not read; failed is the set of the queries of
\* one call that fail.
\* ------------------------------------------------------------------------
Queries == {"invoices", "entries", "transfersIn", "stockOuts", "transfersOut",
            "transferItemsIn", "stockOutItems", "transferItemsOut"}

CatalogQueries == {"warehouses", "reagents", "consumables"}

\* The data of the answer to query q
RespondAlways(failed, q, rows) == [null |-> FALSE, rows |-> rows]
Respond(failed, q, rows) ==
  IF q \in failed THEN [null |-> TRUE] ELSE [null |-> FALSE, rows |-> rows]

\* data || []
OrEmpty(data) == IF data.null THEN <<>> ELSE data.rows

\* calculateProductStockInWarehouse when the queries in failed fail
calculateProductStockInWarehouseFailing(db, warehouseId, productId, productType, failed) ==
  LET invoices_ == Respond(failed, "invoices", ActiveInvoices(db, warehouseId))
      invoiceIds == Ids(OrEmpty(invoices_))
      entries == IF invoiceIds = {} THEN [null |-> FALSE, rows |-> <<>>]
                 ELSE Respond(failed, "entries",
                              InvoiceEntries(db, invoiceIds, productId, productType))
      transfersIn == Respond(failed, "transfersIn", TransfersIn(db, warehouseId))
      stockOuts == Respond(failed, "stockOuts", StockOuts(db, warehouseId))
      transfersOut == Respond(failed, "transfersOut", TransfersOut(db, warehouseId))
      transferInIds == Ids(OrEmpty(transfersIn))
      stockOutIds == Ids(OrEmpty(stockOuts))
      transferOutIds == Ids(OrEmpty(transfersOut))
      transferItemsIn ==
        IF transferInIds = {} THEN [null |-> FALSE, rows |-> <<>>]
        ELSE Respond(failed, "transferItemsIn",
                     TransferItemsOf(db, transferInIds, productId, productType))
      stockOutItems ==
        IF stockOutIds = {} THEN [null |-> FALSE, rows |-> <<>>]
        ELSE Respond(failed, "stockOutItems",
                     StockOutItemsOf(db, stockOutIds, productId, productType))
      transferItemsOut ==
        IF transferOutIds = {} THEN [null |-> FALSE, rows |-> <<>>]
        ELSE Respond(failed, "transferItemsOut",
                     TransferItemsOf(db, transferOutIds, productId, productType))
      batchMap == FillBatchMap(FillBatchMap(<<>>, OrEmpty(entries), TRUE),
                               OrEmpty(transferItemsIn), FALSE)
      loop == NetBatches(batchMap, OrEmpty(stockOutItems) \o OrEmpty(transferItemsOut),
                         OrEmpty(invoices_),
                         [batches |-> <<>>, totalQuantity |-> 0, totalValue |-> 0])
  IN [totalQuantity |-> loop.totalQuantity,
      totalValue |-> loop.totalValue,
      batches |-> SortBatches(loop.batches)]

\* validateStockConsistency when the catalog queries in failed fail
validateStockConsistencyFailing(db, failed) ==
  LET warehouses == Respond(failed, "warehouses", [w \in 1..NumWarehouses |-> w])
      reagents == Respond(failed, "reagents",
                          SelectSeq(allProducts, LAMBDA p : p.type = "reagent"))
      consumables == Respond(failed, "consumables",
                             SelectSeq(allProducts, LAMBDA p : p.type = "consumable"))
  IN IF warehouses.null \/ reagents.null \/ consumables.null THEN <<>>
     ELSE IssuesFrom(db, 1)

\* The failures a call meets here: none, one query, or both inbound queries
\* of a kind.
FailureSets ==
  {{}} \cup {{q} : q \in Queries}
       \cup {{"invoices", "transfersIn"}, {"entries", "transferItemsIn"}}

CatalogFailureSets == {{}, {"warehouses"}, {"reagents"}, {"consumables"}, CatalogQueries}

\* A caller invokes the function while the queries in failed fail.
ComputeFailing(warehouseId, productId, productType, failed) ==
  /\ ~call.called /\ ~issues.computed
  /\ call' = [called |-> TRUE, warehouseId |-> warehouseId, productId |-> productId,
              productType |-> productType, failed |-> failed]
  /\ result' = Computed(calculateProductStockInWarehouseFailing(
                          DB, warehouseId, productId, productType, failed))
  /\ UNCHANGED <<storeVars, uiVars, listVars, result2, resultSeq, issues>>

SweepFailing(failed) ==
  /\ ~call.called /\ ~issues.computed
  /\ issues' = [computed |-> TRUE, failed |-> failed,
                list |-> validateStockConsistencyFailing(DB, failed)]
  /\ UNCHANGED <<storeVars, uiVars, listVars, call, result, result2, resultSeq>>

NextFailures ==
  \/ \E w \in Warehouses, id \in ProductIds, t \in ProductTypes, failed \in FailureSets :
       ComputeFailing(w, id, t, failed)
  \/ \E failed \in CatalogFailureSets : SweepFailing(failed)

SpecFailures == InitCalc /\ [][NextFailures]_vars

\* ------------------------------------------------------------------------
\* The effect of one write handler on the computed stock: the ledger before
\* the step is DB, the ledger after it is DB'.
\* ------------------------------------------------------------------------
NewRows(before, after) == SubSeq(after, Len(before) + 1, Len(after))

OfProduct(rows, product) ==
  SelectSeq(rows, LAMBDA it : it.product_id = product.id /\ it.product_type = product.type)

\* The signed sum of the events the computation aggregates for (w, product).
SignedSum(db, w, product) ==
  Qty(InvoiceEntries(db, Ids(ActiveInvoices(db, w)), product.id, product.type))
  + Qty(TransferItemsOf(db, Ids(TransfersIn(db, w)), product.id, product.type))
  - Qty(TransferItemsOf(db, Ids(TransfersOut(db, w)), product.id, product.type))
  - Qty(StockOutItemsOf(db, Ids(StockOuts(db, w)), product.id, product.type))

\* A step of returnInvoice that completed: the first stock-out of the ledger
\* is written with reason 'invoice_return' and an invoice becomes 'returned'.
ReturnStep ==
  /\ stock_out = <<>>
  /\ Len(stock_out') = 1
  /\ stock_out'[1].reason = "invoice_return"
  /\ invoices' # invoices

\* C2 (as claimed): a return lowers totalQuantity of every (warehouse,
\* product) by exactly the quantity returned of it, also when other active
\* invoices hold stock on the same batch_date, and the lines of the returned
\* invoice stay in invoice_items.
C2_ReturnLowersByReturned ==
  [][ReturnStep =>
       /\ invoice_items' = invoice_items
       /\ \A w \in Warehouses, product \in Catalog :
            StockOf(DB', w, product).totalQuantity =
              StockOf(DB, w, product).totalQuantity
              - (IF w = stock_out'[1].warehouse_id
                 THEN Qty(OfProduct(stock_out_items', product)) ELSE 0)]_vars

\* A step of WarehouseTransfer.handleSubmit that completed, stock-out
\* included, on a ledger without stock-outs.
TransferStep ==
  /\ stock_out = <<>>
  /\ Len(transfers') = Len(transfers) + 1
  /\ Len(stock_out') = 1
  /\ stock_out_items' # <<>>

\* C3 (as claimed): a transfer of quantity Q of product P from A to B lowers
\* totalQuantity of (A, P) by exactly Q and raises that of (B, P) by exactly
\* Q, from every ledger the transfer form allows the transfer from.
C3_TransferSymmetry ==
  [][TransferStep =>
       LET transfer == transfers'[Len(transfers')]
           A == transfer.from_warehouse_id
           B == transfer.to_warehouse_id
       IN \A product \in Catalog :
            LET Q == Qty(OfProduct(NewRows(transfer_items, transfer_items'), product)) IN
            /\ StockOf(DB', A, product).totalQuantity =
                 StockOf(DB, A, product).totalQuantity - Q
            /\ StockOf(DB', B, product).totalQuantity =
                 StockOf(DB, B, product).totalQuantity + Q]_vars

\* C4 (as claimed): after any sequence of the write operations the signed
\* sum of the events the computation aggregates is never negative, for every
\* (warehouse, product).
C4_NoNegativeStock ==
  \A w \in Warehouses, product \in Catalog : SignedSum(DB, w, product) >= 0

\* A step of InventoryCount.handleSubmit that saved the count and wrote the
\* stock-out of its losses.
CountStep ==
  /\ Len(inventory_count') = Len(inventory_count) + 1
  /\ Len(stock_out') = Len(stock_out) + 1
  /\ Len(stock_out_items') > Len(stock_out_items)

\* C5 (as claimed): after a count is saved with a real_qty below system_qty
\* for a product, totalQuantity of the warehouse and product is that real_qty.
C5_StockEqualsRealQty ==
  [][CountStep =>
       LET count == inventory_count'[Len(inventory_count')]
           items == NewRows(inventory_count_items, inventory_count_items')
       IN \A i \in 1..Len(items) :
            items[i].real_qty < items[i].system_qty =>
              StockOf(DB', count.warehouse_id,
                      [id |-> items[i].product_id, type |-> items[i].product_type]
                     ).totalQuantity = items[i].real_qty]_vars

\* A step of returnInvoice that wrote its stock-out (the invoice may or may
\* not have been marked afterwards).
ReturnWrite ==
  /\ Len(stock_out') = Len(stock_out) + 1
  /\ stock_out'[Len(stock_out')].reason = "invoice_return"

\* The lines of invoice inv in the store
LinesOf(inv) == SelectSeq(invoice_items, LAMBDA it : it.invoice_id = inv.id)

\* C14: a return of an invoice with a line above the computed stock of its
\* product in the warehouse of the invoice ends in the alert "insufficient
\* stock" and leaves every table as it was (no stock_out row, no
\* stock_out_items row, the status still 'active'); a return that writes a
\* stock-out, or marks an invoice returned, had no such line.
C14_BlockedReturnWritesNothing ==
  [][/\ \A s \in Sessions :
          modal[s] = "" /\ modal'[s] = "insufficient stock" => UNCHANGED storeVars
     /\ ReturnWrite =>
          LET lines == NewRows(stock_out_items, stock_out_items')
              w == stock_out'[Len(stock_out')].warehouse_id
          IN \A k \in 1..Len(lines) :
               calculateProductStockInWarehouse(
                 DB, w, lines[k].product_id, lines[k].product_type).totalQuantity
                 >= lines[k].quantity
     /\ \A k \in 1..Len(invoices) :
          invoices[k].status = "active" /\ invoices'[k].status = "returned" =>
            /\ ReturnWrite
            /\ ShortLines(DB, invoices[k].warehouse_id, LinesOf(invoices[k])) = {}]_vars

\* C14, its case: a return was blocked, and the invoice with the short line
\* is still active in the store, which holds no return stock-out.
C14_Witness ==
  \E s \in Sessions :
    /\ modal[s] = "insufficient stock"
    /\ \E k \in 1..Len(invoices) :
         /\ invoices[k].status = "active"
         /\ ShortLines(DB, invoices[k].warehouse_id, LinesOf(invoices[k])) # {}
    /\ \A k \in 1..Len(stock_out) : stock_out[k].reason # "invoice_return"

\* A step of WarehouseTransfer.handleSubmit that saved a transfer.
TransferSaved == Len(transfers') = Len(transfers) + 1

\* The rows of the transfer form of session s that are ticked
TickedRows(s) == SelectSeq(availableStock[s], LAMBDA item : item.selected)

\* C15: every transfer the transfer form saves has from_warehouse_id other
\* than to_warehouse_id, and its lines are, in order, ticked batch rows of
\* the form that saved it, each with a quantity above 0 and at most the
\* quantity of its row.
C15_TransferLinesWithinRows ==
  [][TransferSaved =>
       LET transfer == transfers'[Len(transfers')]
           lines == NewRows(transfer_items, transfer_items')
       IN /\ transfer.from_warehouse_id # transfer.to_warehouse_id
          /\ lines # <<>>
          /\ \E s \in Sessions :
               /\ fromWarehouse[s] = transfer.from_warehouse_id
               /\ \E pick \in [1..Len(lines) -> 1..Len(TickedRows(s))] :
                    \A k \in 1..Len(lines) :
                      LET row == TickedRows(s)[pick[k]] IN
                      /\ \A j \in 1..Len(lines) : j < k => pick[j] < pick[k]
                      /\ lines[k].transfer_id = transfer.id
                      /\ lines[k].product_id = row.product_id
                      /\ lines[k].product_type = row.product_type
                      /\ lines[k].batch_date = row.batch_date
                      /\ lines[k].unit_price = row.unit_price
                      /\ lines[k].quantity > 0
                      /\ lines[k].quantity <= row.quantity]_vars

\* C15, its case: a transfer is saved whose line moves less than a batch row
\* of two units held, so the quantity was edited in the form.
C15_Witness ==
  \E s \in Sessions :
    /\ modal[s] = "transfer done"
    /\ \E k \in 1..Len(transfer_items) :
         /\ transfer_items[k].quantity = 1
         /\ \E i \in 1..Len(invoice_items) :
              /\ invoice_items[i].quantity = 2
              /\ invoice_items[i].product_id = transfer_items[k].product_id
              /\ invoice_items[i].product_type = transfer_items[k].product_type
              /\ invoice_items[i].batch_date = transfer_items[k].batch_date
              /\ Len(invoice_items) = 1

\* The stock-out lines a saved transfer wrote with it (none when the
\* stock-out request failed)
NewExitLines == NewRows(stock_out_items, stock_out_items')

\* C17 (as claimed): the lines of a saved transfer carry the date of the
\* transfer as batch_date, and its stock-out lines the batch_date of the
\* batch row they were taken from.
C17_DestinationCarriesTransferDate ==
  [][TransferSaved =>
       LET transfer == transfers'[Len(transfers')]
           lines == NewRows(transfer_items, transfer_items')
       IN /\ \A k \in 1..Len(lines) : lines[k].batch_date = transfer.date
          /\ \A k \in 1..Len(NewExitLines) :
               \E b \in Range(StockOf(DB, transfer.from_warehouse_id,
                                       [id |-> NewExitLines[k].product_id,
                                        type |-> NewExitLines[k].product_type]).batches) :
                 b.batch_date = NewExitLines[k].batch_date]_vars

\* C17 (amended): the lines of a saved transfer carry the batch_date of a
\* batch of the product in the source warehouse, whatever the date of the
\* transfer, and each stock-out line written with it carries the batch_date
\* of the transfer line of the same position.
C17_BothKeepBatchDate ==
  [][TransferSaved =>
       LET transfer == transfers'[Len(transfers')]
           lines == NewRows(transfer_items, transfer_items')
       IN /\ \A k \in 1..Len(lines) :
               \E b \in Range(StockOf(DB, transfer.from_warehouse_id,
                                       [id |-> lines[k].product_id,
                                        type |-> lines[k].product_type]).batches) :
                 b.batch_date = lines[k].batch_date
          /\ NewExitLines # <<>> =>
               /\ Len(NewExitLines) = Len(lines)
               /\ \A k \in 1..Len(lines) :
                    /\ NewExitLines[k].batch_date = lines[k].batch_date
                    /\ NewExitLines[k].product_id = lines[k].product_id
                    /\ NewExitLines[k].product_type = lines[k].product_type]_vars

\* C17, its case: a transfer dated otherwise than the batch it moved was
\* saved with its stock-out.
C17_Witness ==
  /\ \E s \in Sessions : modal[s] = "transfer done"
  /\ Len(transfers) = 1 /\ Len(transfer_items) = 1 /\ Len(stock_out_items) = 1
  /\ transfers[1].date # transfer_items[1].batch_date
  /\ stock_out_items[1].batch_date = transfer_items[1].batch_date

\* The inbound lines of the product of line it in warehouse w that the
\* computation reads: lines of active invoices and of transfers in.
InboundLines(db, w, it) ==
  InvoiceEntries(db, Ids(ActiveInvoices(db, w)), it.product_id, it.product_type)
  \o TransferItemsOf(db, Ids(TransfersIn(db, w)), it.product_id, it.product_type)

\* Line it has the batch_date and the unit_price (a whole number for an
\* inbound line, a rational for a stock-out line) of an inbound line of w.
OfInboundBatch(db, w, it, price) ==
  \E b \in Range(InboundLines(db, w, it)) :
    b.batch_date = it.batch_date /\ price.num = b.unit_price * price.den

\* C18 (as claimed): every transfer line and every stock-out line a step
\* writes carries the batch_date and unit_price of an inbound batch of its
\* product that the ledger before the step holds in the warehouse decreased.
C18_BatchPreservation ==
  [][/\ TransferSaved =>
          LET lines == NewRows(transfer_items, transfer_items') IN
          \A k \in 1..Len(lines) :
            OfInboundBatch(DB, transfers'[Len(transfers')].from_warehouse_id,
                           lines[k], Frac(lines[k].unit_price, 1))
     /\ Len(stock_out') = Len(stock_out) + 1 =>
          \A k \in 1..Len(NewExitLines) :
            OfInboundBatch(DB, stock_out'[Len(stock_out')].warehouse_id,
                           NewExitLines[k], NewExitLines[k].unit_price)]_vars

\* The computed stock, on the ledger before the step, of the product of
\* line it in warehouse w covers the quantity of the line.
Covered(w, it) ==
  calculateProductStockInWarehouse(DB, w, it.product_id, it.product_type).totalQuantity
    >= it.quantity

\* C11 (as claimed): a step creates a decrease document (the lines of a
\* transfer, the stock-out of a return or of a loss) only when the stock
\* computed on the ledger of that moment covers, for every line, the
\* quantity the line takes out of the warehouse decreased.
C11_GateBeforeEveryDecrease ==
  [][/\ TransferSaved =>
          LET lines == NewRows(transfer_items, transfer_items') IN
          \A k \in 1..Len(lines) :
            Covered(transfers'[Len(transfers')].from_warehouse_id, lines[k])
     /\ (/\ Len(stock_out') = Len(stock_out) + 1
         /\ stock_out'[Len(stock_out')].reason \in {"invoice_return", "inventory_loss"}) =>
          \A k \in 1..Len(NewExitLines) :
            Covered(stock_out'[Len(stock_out')].warehouse_id, NewExitLines[k])]_vars

\* C16 (as claimed): no two saved inventory_count rows carry the same
\* count_code, whatever the order in which the sessions load the list and
\* save.
C16_CountCodesUnique ==
  \A i, j \in 1..Len(inventory_count) :
    i # j => inventory_count[i].count_code # inventory_count[j].count_code

Coherent(r) ==
  /\ r.totalQuantity = SumField(r.batches, "quantity")
  /\ r.totalValue = SumField(r.batches, "total_price")
  /\ \A i \in 1..Len(r.batches) :
       r.batches[i].total_price = r.batches[i].quantity * r.batches[i].unit_price
  /\ \A i, j \in 1..Len(r.batches) :
       (/\ r.batches[i].batch_date = r.batches[j].batch_date
        /\ r.batches[i].unit_price = r.batches[j].unit_price) => i = j

\* C27: every result of either version of calculateProductStockInWarehouse
\* is coherent.
C27_ResultCoherent ==
  /\ result.computed => Coherent(result)
  /\ resultSeq.computed => Coherent(resultSeq)

\* C27, its case: both versions returned two batches, built from three or
\* more inbound lines, so that lines were merged into a batch.
C27_Witness ==
  /\ resultSeq.computed
  /\ Len(result.batches) = 2 /\ Len(resultSeq.batches) = 2
  /\ Len(ActiveInvoiceLines) + Len(TransferInLines) >= 3

\* C28: on the same ledger and for the same arguments the sequential version
\* returns what the parallel version returns: the totals and the batches,
\* suppliers included.
C28_VersionsAgree ==
  resultSeq.computed =>
    /\ resultSeq.totalQuantity = result.totalQuantity
    /\ resultSeq.totalValue = result.totalValue
    /\ resultSeq.batches = result.batches

\* C28, its case: the versions were compared on a result that holds a batch
\* with a supplier and a batch without one.
C28_Witness ==
  /\ resultSeq.computed
  /\ \E i, j \in 1..Len(result.batches) :
       result.batches[i].supplier # "" /\ result.batches[j].supplier = ""

\* The ledger without the rows the queries in failed would have returned to
\* a call for (warehouseId, productId, productType).
WithoutRows(db, warehouseId, productId, productType, failed) ==
  LET Mine(it) == it.product_id = productId /\ it.product_type = productType
      Into(id) == \E k \in 1..Len(db.transfers) :
                    db.transfers[k].id = id /\ db.transfers[k].to_warehouse_id = warehouseId
      OutOf(id) == \E k \in 1..Len(db.transfers) :
                     db.transfers[k].id = id /\ db.transfers[k].from_warehouse_id = warehouseId
  IN [invoices |->
        SelectSeq(db.invoices,
                  LAMBDA inv : ~("invoices" \in failed /\ inv.warehouse_id = warehouseId
                                 /\ inv.status = "active")),
      invoice_items |->
        SelectSeq(db.invoice_items, LAMBDA it : ~("entries" \in failed /\ Mine(it))),
      transfers |->
        SelectSeq(db.transfers,
                  LAMBDA tr : /\ ~("transfersIn" \in failed /\ tr.to_warehouse_id = warehouseId)
                              /\ ~("transfersOut" \in failed
                                    /\ tr.from_warehouse_id = warehouseId)),
      transfer_items |->
        SelectSeq(db.transfer_items,
                  LAMBDA it : /\ ~("transferItemsIn" \in failed /\ Mine(it)
                                    /\ Into(it.transfer_id))
                              /\ ~("transferItemsOut" \in failed /\ Mine(it)
                                    /\ OutOf(it.transfer_id))),
      stock_out |->
        SelectSeq(db.stock_out,
                  LAMBDA so : ~("stockOuts" \in failed /\ so.warehouse_id = warehouseId
                                /\ so.reason # "transfer")),
      stock_out_items |->
        SelectSeq(db.stock_out_items, LAMBDA it : ~("stockOutItems" \in failed /\ Mine(it)))]

\* C22: a call whose queries in failed fail returns what the function
\* returns on the ledger without the rows of those queries; with no inbound
\* rows read it returns zero totals and no batch; the sweep returns the
\* empty list when a catalog query fails.
C22_FailedQueryAsEmpty ==
  /\ (call.called /\ result.computed) =>
       /\ result = Computed(calculateProductStockInWarehouse(
                              WithoutRows(DB, call.warehouseId, call.productId,
                                          call.productType, call.failed),
                              call.warehouseId, call.productId, call.productType))
       /\ (\/ {"invoices", "transfersIn"} \subseteq call.failed
           \/ {"entries", "transferItemsIn"} \subseteq call.failed) =>
            /\ result.totalQuantity = 0 /\ result.totalValue = 0
            /\ result.batches = <<>>
  /\ (issues.computed /\ issues.failed # {}) => issues.list = <<>>

\* C22, its case: the function was called with a failing query on a ledger
\* where, with every query answered, it returns another result.
C22_Witness ==
  /\ call.called /\ result.computed
  /\ call.failed # {}
  /\ result # Computed(calculateProductStockInWarehouse(
                         DB, call.warehouseId, call.productId, call.productType))

\* A step of InventoryCount.handleSubmit that saved a count.
CountSaved == Len(inventory_count') = Len(inventory_count) + 1

\* C23 (as claimed): a handler leaves whole documents only. A step that
\* saves an invoice saves its lines; a step that saves a transfer saves its
\* lines, the mirroring stock-out and one stock-out line for each transfer
\* line; a step that saves a count saves its lines and, when a row has a
\* loss, the loss stock-out with its lines; no stock-out is left without
\* lines.
C23_NoPartialDocument ==
  [][/\ Len(invoices') = Len(invoices) + 1 =>
          NewRows(invoice_items, invoice_items') # <<>>
     /\ TransferSaved =>
          /\ NewRows(transfer_items, transfer_items') # <<>>
          /\ Len(stock_out') = Len(stock_out) + 1
          /\ Len(NewExitLines) = Len(NewRows(transfer_items, transfer_items'))
     /\ CountSaved =>
          LET items == NewRows(inventory_count_items, inventory_count_items') IN
          /\ items # <<>>
          /\ (\E k \in 1..Len(items) : items[k].loss_qty > 0) =>
               Len(stock_out') = Len(stock_out) + 1 /\ NewExitLines # <<>>
     /\ Len(stock_out') = Len(stock_out) + 1 => NewExitLines # <<>>]_vars

\* Equality of two rationals
FracEq(a, b) == a.num * b.den = b.num * a.den

\* C24: the lines of a saved count are rows of one warehouse: system_qty is
\* the computed totalQuantity of the product there, loss_qty is system_qty
\* less real_qty, loss_amount is loss_qty at totalValue / totalQuantity; the
\* total_loss_amount of the count is the sum of the loss_amount of its lines.
C24_CountLinesArithmetic ==
  [][CountSaved =>
       LET count == inventory_count'[Len(inventory_count')]
           items == NewRows(inventory_count_items, inventory_count_items')
       IN /\ items # <<>>
          /\ \E w \in Warehouses : \A k \in 1..Len(items) :
               LET stock == calculateProductStockInWarehouse(
                              DB, w, items[k].product_id, items[k].product_type)
               IN /\ items[k].count_id = count.id
                  /\ stock.totalQuantity > 0
                  /\ items[k].system_qty = stock.totalQuantity
                  /\ items[k].loss_qty = items[k].system_qty - items[k].real_qty
                  /\ FracEq(items[k].loss_amount,
                            Frac(items[k].loss_qty * stock.totalValue, stock.totalQuantity))
          /\ FracEq(count.total_loss_amount,
                    SumFrac([k \in 1..Len(items) |-> items[k].loss_amount]))]_vars

\* C24, its case: a count was saved with a loss of one unit of a product
\* whose average price is 3/2.
C24_Witness ==
  /\ \E s \in Sessions : modal[s] = "count saved"
  /\ \E k \in 1..Len(inventory_count_items) :
       /\ inventory_count_items[k].loss_qty = 1
       /\ FracEq(inventory_count_items[k].loss_amount, Frac(3, 2))
       /\ FracEq(inventory_count[1].total_loss_amount, Frac(3, 2))

\* A step wrote a stock-out with reason 'inventory_loss'.
LossWritten ==
  /\ Len(stock_out') = Len(stock_out) + 1
  /\ stock_out'[Len(stock_out')].reason = "inventory_loss"

C30_ReturnedIffStockOut ==
  [][/\ ReturnWrite =>
          \E k \in 1..Len(invoices) :
            /\ invoices[k].status = "active"
            /\ invoices'[k].status = "returned"
            /\ NewRows(stock_out_items, stock_out_items')
                 = ReturnItems(stock_out'[Len(stock_out')].id, LinesOf(invoices[k]))
     /\ \A k \in 1..Len(invoices) :
          invoices[k].status = "active" /\ invoices'[k].status = "returned" =>
            ReturnWrite]_vars

\* Stock-out so is a return of invoice inv: reason 'invoice_return', the
\* warehouse of the invoice, and lines that mirror the lines of the invoice.
Mirrors(so, inv) ==
  /\ so.reason = "invoice_return"
  /\ so.warehouse_id = inv.warehouse_id
  /\ SelectSeq(stock_out_items, LAMBDA it : it.stockout_id = so.id)
       = ReturnItems(so.id, LinesOf(inv))

\* C29 (as claimed): whatever the tabs do, the store never holds two return
\* stock-outs that mirror the lines of the same invoice.
C29_ReturnedAtMostOnce ==
  \A k \in 1..Len(invoices) :
    Cardinality({j \in 1..Len(stock_out) : Mirrors(stock_out[j], invoices[k])}) <= 1

\* C26 (as claimed): once no loadStocks call is running, the rows on display
\* are those of the selected warehouse (what a call for the selection shows
\* when it runs alone; none when nothing is selected), also when the
\* selection changed while an earlier call was still running.
C26_ShowsSelectedWarehouse ==
  loads = <<>> =>
    stocks = IF listSelected = 0 THEN <<>>
             ELSE processBatches(DB, [selected |-> listSelected, whs |-> listWarehouses,
                                      cached |-> TRUE, i |-> 0, allResults |-> <<>>])

\* C12 (as claimed): whenever the signed sum of the ledger events of some
\* (warehouse, product) is negative, the list validateStockConsistency
\* returns holds an issue for that warehouse and product.
C12_SweepReportsNegative ==
  issues.computed =>
    \A w \in Warehouses, product \in Catalog :
      SignedSum(DB, w, product) < 0 =>
        \E i \in 1..Len(issues.list) :
          /\ issues.list[i].warehouse_id = w
          /\ issues.list[i].product_id = product.id
          /\ issues.list[i].product_type = product.type

====
